---- MODULE Spec2Model ----
(***************************************************************************)
(* registry-sync: the scheduler (internal/scheduler), its execution        *)
(* records (internal/db/models), and the rule execution runTask with the   *)
(* registry operations it issues against the target registry.              *)
(***************************************************************************)
EXTENDS Naturals, Integers, Sequences, FiniteSets, TLC

(***************************************************************************)
(* Bounds of the model.                                                    *)
(***************************************************************************)
\* number of Execution records ExecuteTask may create in one behaviour
MaxExecs == 2
\* number of registry requests the environment lets fail (transport error,
\* 5xx, ...) in one behaviour; failures caused by a cancelled context are
\* not counted
MaxFaults == 1

(***************************************************************************)
(* Tasks in the store, and ids a caller may pass.                          *)
(***************************************************************************)
StoredTasks == {1}
TaskIDs == {1, 2}

\* value of running[t] when the map has no entry for t
NoCancel == 0

(***************************************************************************)
(* models.ExecutionStatus                                                  *)
(***************************************************************************)
StatusPending == "pending"
StatusRunning == "running"
StatusSuccess == "success"
StatusFailed == "failed"
StatusCanceled == "canceled"

\* Execution.IsComplete
IsComplete(x) == x.Status = StatusSuccess \/ x.Status = StatusFailed \/ x.Status = StatusCanceled

(***************************************************************************)
(* The source repository the task reads: the tag lists it may hold, and    *)
(* the manifest each reference resolves to.  The image under the tag v1   *)
(* has no config descriptor and lists the layer l1 twice; the image under  *)
(* v2 has the single layer l2; the tag "multi" is a manifest list with two *)
(* children.                                                               *)
(***************************************************************************)
MTImage == "application/vnd.docker.distribution.manifest.v2+json"
MTList == "application/vnd.docker.distribution.manifest.list.v2+json"

Desc(d, s) == [Digest |-> d, Size |-> s]
NoDesc == [Digest |-> "", Size |-> 0]
Entry(d, a) == [Digest |-> d, Architecture |-> a]

\* the repositories the scheduler is run against: one that holds v1 and one
\* that holds the manifest list; the repository that holds the single-layer
\* image v2 has a specification of its own (SpecSingle)
SourceRepos == {<<"v1">>, <<"multi">>}
SingleLayerRepos == {<<"v2">>}

SourceManifest(ref) ==
  CASE ref = "v1" -> [MediaType |-> MTImage, Config |-> NoDesc,
                      Layers |-> <<Desc("l1", 2), Desc("l1", 2)>>,
                      Manifests |-> <<>>]
    [] ref = "multi" -> [MediaType |-> MTList, Config |-> NoDesc,
                      Layers |-> <<>>,
                      Manifests |-> <<Entry("m_amd", "amd64"), Entry("m_arm", "arm64")>>]
    [] ref = "v2" -> [MediaType |-> MTImage, Config |-> NoDesc,
                      Layers |-> <<Desc("l2", 2)>>, Manifests |-> <<>>]
    [] ref = "m_amd" -> [MediaType |-> MTImage, Config |-> Desc("c2", 1),
                      Layers |-> <<Desc("l1", 2)>>, Manifests |-> <<>>]
    [] OTHER -> [MediaType |-> MTImage, Config |-> Desc("c3", 1),
                      Layers |-> <<Desc("l2", 2)>>, Manifests |-> <<>>]

\* SyncTask.Architectures of the stored task
TaskArchitectures == <<"amd64">>

(***************************************************************************)
(* Sequence helpers.                                                       *)
(***************************************************************************)
Range(s) == {s[i] : i \in 1..Len(s)}

RECURSIVE SelectSeqIdx(_, _, _)
SelectSeqIdx(s, keep, i) ==
  IF i > Len(s) THEN <<>>
  ELSE (IF i \in keep THEN <<s[i]>> ELSE <<>>) \o SelectSeqIdx(s, keep, i + 1)

(***************************************************************************)
(* pkg/registry manifest helpers.                                          *)
(***************************************************************************)
\* Manifest.IsManifestList: the media type contains "manifest.list" or
\* "image.index"
IsManifestList(m) == m.MediaType = MTList

\* Manifest.GetAllBlobs: the config when its digest is not empty, then the
\* layers
GetAllBlobs(m) ==
  (IF m.Config.Digest # "" THEN <<m.Config>> ELSE <<>>) \o m.Layers

\* FilterManifestsByArch
FilterManifestsByArch(manifests, architectures) ==
  IF Len(architectures) = 0 THEN manifests
  ELSE SelectSeq(manifests, LAMBDA m : m.Architecture \in Range(architectures))

(***************************************************************************)
(* State.                                                                  *)
(***************************************************************************)
VARIABLES
  sourceTags,       \* the tags ListTags returns for the source repository
  running,          \* Scheduler.running: task id -> id of the execution whose
                    \* context the stored cancel function cancels, or NoCancel
  executions,       \* the *models.Execution object each background run owns
  store,            \* the executions table, as written by Create/UpdateExecution
  runs,             \* per execution: position of its background run, its plan
                    \* (allRepoTags), its context, the error runTask returns
  targetBlobs,      \* digests present in the target repository
  targetManifests,  \* references under which the target holds a manifest
  progress,         \* per execution: the last progress event broadcast
  faults,           \* number of registry requests that failed so far
  hist,             \* per execution: what its run issued and met (history)
  lastPush          \* the PutManifest request sent last, with what the target
                    \* held when it was sent (history)

\* the other components of the program, each checked under a specification
\* of its own: they stay as constructed while the scheduler runs
VARIABLES
  retry,            \* one call of RetryWithBackoff: its configuration, locals,
                    \* context, and what it did so far
  pool,             \* one WorkerPool with its submitter and its workers
  client,           \* one registry Client serving one operation
  filter,           \* one call of Filter.FilterTags: its filter, its argument,
                    \* its locals
  planner,          \* the planning and copying of one run of runTask over
                    \* several repositories and tags
  access,           \* the goroutines that use Scheduler.running, each with
                    \* its position in its map operation
  hub,              \* the websocket Hub with its subscribers
  engine            \* one call of Engine.SyncRule with the requests it sent

schedVars == <<sourceTags, running, executions, store, runs, targetBlobs,
               targetManifests, progress, faults, hist, lastPush>>

vars == <<sourceTags, running, executions, store, runs, targetBlobs,
          targetManifests, progress, faults, hist, lastPush,
          retry, pool, client, filter, planner, access, hub, engine>>

\* the components introduced last, and the ones before them
restVars == <<filter, planner, access, hub, engine>>
compVars == <<retry, pool, client>>

ExecIDs == 1..Len(executions)

MayFault == faults < MaxFaults

\* digests of the blobs the manifest under ref references
BlobDigests(ref) == {d.Digest : d \in Range(GetAllBlobs(SourceManifest(ref)))}

\* digests of the child manifests the list under ref references
ChildDigests(ref) == {c.Digest : c \in Range(SourceManifest(ref).Manifests)}

\* digests of the children of the list under ref that the task's architecture
\* allow-list selects
SelectedChildren(ref) ==
  {c.Digest : c \in Range(FilterManifestsByArch(SourceManifest(ref).Manifests, TaskArchitectures))}

\* every blob of every tag is on the target and every tag has its manifest:
\* what a run that copied everything leaves behind
TargetComplete ==
  /\ \A i \in 1..Len(sourceTags) : BlobDigests(sourceTags[i]) \subseteq targetBlobs
  /\ Range(sourceTags) \subseteq targetManifests

(***************************************************************************)
(* Scheduler.ExecuteTask, the part that runs in the caller.                *)
(***************************************************************************)
\* the record ExecuteTask creates
NewExecution(t) ==
  [TaskID |-> t, Status |-> StatusRunning, EndTime |-> FALSE,
   TotalBlobs |-> 0, SyncedBlobs |-> 0, SkippedBlobs |-> 0, FailedBlobs |-> 0,
   SyncedSize |-> 0, ErrorMessage |-> ""]

NewRun == [pc |-> "preflight", ctxDone |-> FALSE, plan |-> <<>>, ti |-> 1, bi |-> 1, err |-> ""]

NoEvent == [kind |-> "none", status |-> "", total_blobs |-> 0, synced_blobs |-> 0]

NoPush == [list |-> FALSE, blobsPresent |-> TRUE, childrenPushed |-> TRUE]

NewHist ==
  [uploaded |-> FALSE, hadError |-> FALSE, seeded |-> TargetComplete,
   preflightFailure |-> "", listed |-> FALSE, notified |-> ""]

\* a run of task t was started and has not finished
InFlight(t) == \E e \in ExecIDs : executions[e].TaskID = t /\ runs[e].pc # "done"

\* the error ExecuteTask returns in the current state ("" for nil)
ExecuteTaskResult(t) ==
  IF running[t] # NoCancel THEN "already running"
  ELSE IF t \notin StoredTasks THEN "failed to load task"
  ELSE ""

ExecuteTask(t) ==
  IF ExecuteTaskResult(t) # ""
  THEN UNCHANGED schedVars
  ELSE /\ Len(executions) < MaxExecs
       /\ executions' = Append(executions, NewExecution(t))
       /\ store' = Append(store, NewExecution(t))
       /\ running' = [running EXCEPT ![t] = Len(executions) + 1]
       /\ runs' = Append(runs, NewRun)
       /\ progress' = Append(progress, NoEvent)
       /\ hist' = Append(hist, NewHist)
       /\ UNCHANGED <<sourceTags, targetBlobs, targetManifests, faults, lastPush>>

\* CancelTask as it would be if it also marked the stored record canceled
\* while the background run still owns and saves its own copy
CancelTaskMarksStore(t) ==
  IF running[t] = NoCancel
  THEN UNCHANGED schedVars
  ELSE /\ runs' = [runs EXCEPT ![running[t]].ctxDone = TRUE]
       /\ store' = [store EXCEPT ![running[t]].Status = StatusCanceled]
       /\ running' = [running EXCEPT ![t] = NoCancel]
       /\ UNCHANGED <<sourceTags, executions, targetBlobs,
                      targetManifests, progress, faults, hist, lastPush>>

(***************************************************************************)
(* Scheduler.CancelTask                                                    *)
(***************************************************************************)
CancelTask(t) ==
  IF running[t] = NoCancel
  THEN UNCHANGED schedVars
  ELSE /\ runs' = [runs EXCEPT ![running[t]].ctxDone = TRUE]
       /\ running' = [running EXCEPT ![t] = NoCancel]
       /\ UNCHANGED <<sourceTags, executions, store, targetBlobs,
                      targetManifests, progress, faults, hist, lastPush>>

(***************************************************************************)
(* Registry requests, by their possible results.  A request made with a    *)
(* cancelled context fails; otherwise it may fail while the environment    *)
(* still has a fault to spend.                                             *)
(***************************************************************************)
\* one request that can only succeed or fail: PingCheck and CreateProject
\* (preflight), ListTags, GetManifest
Request(cancelled, mayFault) ==
  IF cancelled THEN {"error"}
  ELSE {"ok"} \cup (IF mayFault THEN {"error"} ELSE {})

\* BlobExists as it would be if a 200 answer were not recognised
BlobExistsNeverFound(present, cancelled, mayFault) ==
  IF cancelled THEN {"error"}
  ELSE {"absent"} \cup (IF mayFault THEN {"error"} ELSE {})

\* Client.BlobExists: HEAD answers 200 (exists), 404 (absent) or fails
BlobExists(present, cancelled, mayFault) ==
  IF cancelled THEN {"error"}
  ELSE {IF present THEN "exists" ELSE "absent"} \cup (IF mayFault THEN {"error"} ELSE {})

\* CopyBlob: returns nil without upload when the blob exists; the mount of
\* the target repository onto itself cannot succeed for a blob the repository
\* lacks, so the blob is downloaded and uploaded (PutBlob), or a step fails
CopyBlob(present, cancelled, mayFault) ==
  IF cancelled THEN {"error"}
  ELSE {IF present THEN "exists" ELSE "uploaded"} \cup (IF mayFault THEN {"error"} ELSE {})

\* Client.PutManifest: the target answers 201, or the request fails; a
\* target may reject a manifest whose references it does not hold
PutManifest(complete, cancelled, mayFault) ==
  IF cancelled THEN {"error"}
  ELSE {"ok"} \cup (IF mayFault \/ ~complete THEN {"error"} ELSE {})

\* what the manifest under ref references is on the target
ReferencesPresent(ref) ==
  /\ BlobDigests(ref) \subseteq targetBlobs
  /\ ChildDigests(ref) \subseteq targetManifests

(***************************************************************************)
(* Scheduler.runTask                                                       *)
(***************************************************************************)
\* Client.ProjectExists: the project is listed, is not listed, or the
\* listing fails
ProjectExists(cancelled, mayFault) ==
  IF cancelled THEN {"error"}
  ELSE {"exists", "absent"} \cup (IF mayFault THEN {"error"} ELSE {})

\* lines 226-246: the error the two pings make runTask return ("" for none)
PingOutcome(src, tgt) ==
  IF src = "error" \/ tgt = "error" THEN "registry unreachable" ELSE ""

\* the project step as it would be if a failed creation were only logged
ProjectOutcomeCreateLogged(check, create) == ""

\* lines 263-289: the error the project step makes runTask return ("" for
\* none): a failed existence check is logged and the run goes on, a failed
\* creation of the missing project is returned
ProjectOutcome(check, create) ==
  IF check = "absent" /\ create = "error" THEN "create target project failed"
  ELSE ""

\* lines 181-304: load the registries, ping the source, then the target,
\* check that the target project exists, create it if it is missing
RunPreflight(e) ==
  /\ runs[e].pc = "preflight"
  /\ \E src \in Request(runs[e].ctxDone, MayFault) :
     \E tgt \in (IF src = "ok" THEN Request(runs[e].ctxDone, MayFault) ELSE {"none"}) :
     \E check \in (IF tgt = "ok" THEN ProjectExists(runs[e].ctxDone, MayFault)
                   ELSE {"none"}) :
     \E create \in (IF check = "absent" THEN Request(runs[e].ctxDone, MayFault)
                    ELSE {"none"}) :
       LET ping == PingOutcome(src, tgt)
           err == IF ping # "" THEN ping ELSE ProjectOutcome(check, create)
           failed == ping # "" \/ check = "error" \/ create = "error"
       IN /\ runs' = [runs EXCEPT ![e].pc = IF err = "" THEN "plan" ELSE "return",
                                  ![e].err = err]
          /\ faults' = IF failed /\ ~runs[e].ctxDone THEN faults + 1 ELSE faults
          /\ hist' = [hist EXCEPT ![e].hadError = @ \/ failed,
                                  ![e].preflightFailure =
                                     IF ping # "" THEN "ping"
                                     ELSE IF check = "error" THEN "project exists"
                                     ELSE IF create = "error" THEN "create project"
                                     ELSE @]
  /\ UNCHANGED <<sourceTags, running, executions, store, targetBlobs,
                 targetManifests, progress, lastPush>>

\* the total as it would be if the plan counted each digest once
PlanTotalDistinct(plan) ==
  Cardinality(UNION {BlobDigests(plan[i]) : i \in 1..Len(plan)})

\* line 416: totalBlobsCount += len(blobs), for every planned tag
RECURSIVE PlanTotal(_)
PlanTotal(plan) ==
  IF plan = <<>> THEN 0
  ELSE Len(GetAllBlobs(SourceManifest(Head(plan)))) + PlanTotal(Tail(plan))

\* lines 365-437: list the tags, fetch the manifest of each, count the blobs,
\* store the total.  A tag whose manifest cannot be fetched is left out.
RunPlan(e) ==
  /\ runs[e].pc = "plan"
  /\ \E listed \in Request(runs[e].ctxDone, MayFault),
        lost \in SUBSET (1..Len(sourceTags)) :
       LET n == IF runs[e].ctxDone THEN 0
                ELSE IF listed = "error" THEN 1 ELSE Cardinality(lost)
           plan == IF listed = "error" THEN <<>>
                   ELSE SelectSeqIdx(sourceTags, (1..Len(sourceTags)) \ lost, 1)
           x == [executions[e] EXCEPT !.TotalBlobs = PlanTotal(plan)]
       IN /\ listed = "error" => lost = {}
          /\ faults + n <= MaxFaults
          /\ faults' = faults + n
          /\ runs' = [runs EXCEPT ![e].pc = "sync", ![e].plan = plan,
                                  ![e].ti = 1, ![e].bi = 1]
          /\ executions' = [executions EXCEPT ![e] = x]
          /\ store' = [store EXCEPT ![e] = x]
          /\ hist' = [hist EXCEPT ![e].hadError = @ \/ n > 0 \/ listed = "error",
                                  ![e].listed = TRUE]
  /\ UNCHANGED <<sourceTags, running, targetBlobs, targetManifests, progress,
                 lastPush>>

\* line 481 and line 498: execution.FailedBlobs++
CountFailed(x) == [x EXCEPT !.FailedBlobs = @ + 1]

\* the skip as it would be if a skipped blob were taken out of the total
CountSkippedShrinksTotal(x) ==
  [x EXCEPT !.SkippedBlobs = @ + 1, !.SyncedBlobs = @ + 1, !.TotalBlobs = @ - 1]

\* lines 486-487: the blob exists on the target
CountSkipped(x) == [x EXCEPT !.SkippedBlobs = @ + 1, !.SyncedBlobs = @ + 1]

\* the copy as it would be if a copied blob were counted twice
CountCopiedTwice(x, size) == [x EXCEPT !.SyncedBlobs = @ + 2, !.SyncedSize = @ + size]

\* lines 500-501: CopyBlob returned nil
CountCopied(x, size) == [x EXCEPT !.SyncedBlobs = @ + 1, !.SyncedSize = @ + size]

\* the data of a progress broadcast
ProgressEvent(kind, x) ==
  [kind |-> kind, status |-> x.Status, total_blobs |-> x.TotalBlobs,
   synced_blobs |-> x.SyncedBlobs]

\* the branch as it would be if CopyBlob were called for every blob whose
\* check did not fail
CopyOutcomesAlways(chk, present, cancelled, mayFault) ==
  IF chk # "error" THEN CopyBlob(present, cancelled, mayFault) ELSE {"none"}

\* lines 474-490: CopyBlob is called only in the else branch of "if exists"
CopyOutcomes(chk, present, cancelled, mayFault) ==
  IF chk = "absent" THEN CopyBlob(present, cancelled, mayFault) ELSE {"none"}

\* lines 471-512: one iteration of the blob loop
RunBlob(e) ==
  /\ runs[e].pc = "sync"
  /\ runs[e].ti <= Len(runs[e].plan)
  /\ LET r == runs[e]
         blobs == GetAllBlobs(SourceManifest(r.plan[r.ti]))
         blob == blobs[r.bi]
         present == blob.Digest \in targetBlobs
     IN /\ r.bi <= Len(blobs)
        /\ \E chk \in BlobExists(present, r.ctxDone, MayFault) :
           \E cp \in CopyOutcomes(chk, present, r.ctxDone, MayFault) :
             LET x == CASE chk = "error" -> CountFailed(executions[e])
                        [] chk = "exists" -> CountSkipped(executions[e])
                        [] cp = "error" -> CountFailed(executions[e])
                        [] OTHER -> CountCopied(executions[e], blob.Size)
                 fault == (chk = "error" /\ ~r.ctxDone) \/ cp = "error"
             IN /\ executions' = [executions EXCEPT ![e] = x]
                /\ store' = IF chk = "error" THEN store ELSE [store EXCEPT ![e] = x]
                /\ progress' = IF chk = "error" THEN progress
                               ELSE [progress EXCEPT ![e] = ProgressEvent("blob", x)]
                /\ targetBlobs' = IF cp = "uploaded" THEN targetBlobs \cup {blob.Digest}
                                  ELSE targetBlobs
                /\ faults' = IF fault THEN faults + 1 ELSE faults
                /\ hist' = [hist EXCEPT ![e].uploaded = @ \/ cp = "uploaded",
                                        ![e].hadError = @ \/ chk = "error" \/ cp = "error"]
                /\ runs' = [runs EXCEPT ![e].bi = @ + 1]
  /\ UNCHANGED <<sourceTags, running, targetManifests, lastPush>>

\* lines 514-532: push the manifest of the current tag under the tag, then
\* go to the next tag.  lastPush records the request when it is sent
\* (a request with a cancelled context is not sent).
RunPutManifest(e) ==
  /\ runs[e].pc = "sync"
  /\ runs[e].ti <= Len(runs[e].plan)
  /\ LET r == runs[e]
         ref == r.plan[r.ti]
         m == SourceManifest(ref)
     IN /\ r.bi > Len(GetAllBlobs(m))
        /\ \E res \in PutManifest(ReferencesPresent(ref), r.ctxDone, MayFault) :
             LET fault == res = "error" /\ ~r.ctxDone /\ ReferencesPresent(ref)
                 push == [list |-> IsManifestList(m),
                          blobsPresent |-> BlobDigests(ref) \subseteq targetBlobs,
                          childrenPushed |-> SelectedChildren(ref) \subseteq targetManifests]
             IN /\ targetManifests' = IF res = "ok" THEN targetManifests \cup {ref}
                                      ELSE targetManifests
                /\ faults' = IF fault THEN faults + 1 ELSE faults
                /\ lastPush' = IF r.ctxDone THEN lastPush ELSE push
                /\ hist' = [hist EXCEPT ![e].hadError = @ \/ res = "error"]
                /\ runs' = [runs EXCEPT ![e].ti = @ + 1, ![e].bi = 1]
  /\ UNCHANGED <<sourceTags, running, executions, store, targetBlobs, progress>>

(***************************************************************************)
(* Scheduler.ExecuteTask, the end of the background run (lines 130-172).   *)
(***************************************************************************)
\* runTask has returned: with an error from preflight, or nil after the
\* last tag
Returned(e) ==
  \/ runs[e].pc = "return"
  \/ runs[e].pc = "sync" /\ runs[e].ti > Len(runs[e].plan)

\* lines 140 and 155
FinalStatus(err) == IF err # "" THEN StatusFailed ELSE StatusSuccess

\* SyncTask.SendNotification, NotificationCondition and whether one of the
\* channels in NotificationChannelIDs is enabled, for the stored task
TaskSendNotification == TRUE
TaskNotificationCondition == "failed"
TaskChannelEnabled == TRUE

\* Scheduler.sendNotification: the status handed to SendTaskNotification,
\* "" when no notification is sent
sendNotification(status) ==
  IF ~TaskSendNotification THEN ""
  ELSE IF TaskNotificationCondition = "failed" /\ status # StatusFailed THEN ""
  ELSE IF ~TaskChannelEnabled THEN ""
  ELSE status

RunFinish(e) ==
  /\ Returned(e)
  /\ LET x == [executions[e] EXCEPT !.Status = FinalStatus(runs[e].err),
                                    !.EndTime = TRUE,
                                    !.ErrorMessage = runs[e].err]
     IN /\ executions' = [executions EXCEPT ![e] = x]
        /\ store' = [store EXCEPT ![e] = x]
        /\ progress' = [progress EXCEPT ![e] = ProgressEvent("final", x)]
        /\ running' = [running EXCEPT ![x.TaskID] = NoCancel]
        /\ runs' = [runs EXCEPT ![e] = [NewRun EXCEPT !.pc = "done",
                                                      !.ctxDone = runs[e].ctxDone]]
        /\ hist' = [hist EXCEPT ![e].notified = sendNotification(x.Status)]
  /\ UNCHANGED <<sourceTags, targetBlobs, targetManifests, faults, lastPush>>

(***************************************************************************)
(* Specification.                                                          *)
(***************************************************************************)
\* no call of RetryWithBackoff, no pool, no client operation
NoRetry == [pc |-> "none"]
NoPool == [pc |-> "none"]
NoClient == [pc |-> "none"]
NoFilter == [pc |-> "none"]
NoPlanner == [pc |-> "none"]
NoAccess == [pc |-> "none"]
NoHub == [pc |-> "none"]
NoEngine == [pc |-> "none"]

RestIdle ==
  /\ filter = NoFilter /\ planner = NoPlanner /\ access = NoAccess /\ hub = NoHub
  /\ engine = NoEngine
CompIdle == retry = NoRetry /\ pool = NoPool /\ client = NoClient

\* the scheduler as NewScheduler leaves it, the target empty
SchedInit ==
  /\ running = [t \in TaskIDs |-> NoCancel]
  /\ executions = <<>>
  /\ store = <<>>
  /\ runs = <<>>
  /\ targetBlobs = {}
  /\ targetManifests = {}
  /\ progress = <<>>
  /\ faults = 0
  /\ hist = <<>>
  /\ lastPush = NoPush

Init ==
  /\ sourceTags \in SourceRepos
  /\ SchedInit
  /\ retry = NoRetry /\ pool = NoPool /\ client = NoClient
  /\ RestIdle

Next ==
  \/ \E t \in TaskIDs : ExecuteTask(t) /\ UNCHANGED <<retry, pool, client, restVars>>
  \/ \E t \in TaskIDs : CancelTask(t) /\ UNCHANGED <<retry, pool, client, restVars>>
  \/ \E e \in ExecIDs : RunPreflight(e) /\ UNCHANGED <<retry, pool, client, restVars>>
  \/ \E e \in ExecIDs : RunPlan(e) /\ UNCHANGED <<retry, pool, client, restVars>>
  \/ \E e \in ExecIDs : RunBlob(e) /\ UNCHANGED <<retry, pool, client, restVars>>
  \/ \E e \in ExecIDs : RunPutManifest(e) /\ UNCHANGED <<retry, pool, client, restVars>>
  \/ \E e \in ExecIDs : RunFinish(e) /\ UNCHANGED <<retry, pool, client, restVars>>

Spec == Init /\ [][Next]_vars

\* the scheduler run against the repository with the single-layer image
InitSingle ==
  /\ sourceTags \in SingleLayerRepos
  /\ SchedInit
  /\ CompIdle
  /\ RestIdle

SpecSingle == InitSingle /\ [][Next]_vars

TypeOK ==
  /\ running \in [TaskIDs -> 0..MaxExecs]
  /\ Len(executions) <= MaxExecs
  /\ Len(store) = Len(executions) /\ Len(runs) = Len(executions)
  /\ Len(progress) = Len(executions) /\ Len(hist) = Len(executions)
  /\ faults \in 0..MaxFaults

(***************************************************************************)
(* Properties.                                                             *)
(***************************************************************************)
Terminal(e) == IsComplete(store[e])

\* C1: for every task, at most one Execution has status running with its
\* background run not yet finished.
C1_AtMostOneRunning ==
  \A t \in TaskIDs :
    Cardinality({e \in ExecIDs : /\ store[e].TaskID = t
                                 /\ store[e].Status = StatusRunning
                                 /\ runs[e].pc # "done"}) <= 1

\* C2: a run whose context CancelTask cancelled while it was in progress
\* ends with status canceled.
C2_CancelledEndsCanceled ==
  \A e \in ExecIDs :
    (runs[e].ctxDone /\ runs[e].pc = "done") => store[e].Status = StatusCanceled

\* C3: whenever PutManifest is issued, every blob the manifest references
\* is on the target at that moment.
C3_BlobsBeforeManifest ==
  lastPush.blobsPresent

\* C4: a finished Execution has status success if and only if failedBlobs
\* is 0 and no error occurred during the run, and status failed otherwise.
C4_SuccessIffClean ==
  \A e \in ExecIDs :
    runs[e].pc = "done" =>
      /\ store[e].Status \in {StatusSuccess, StatusFailed}
      /\ store[e].Status = StatusSuccess
           <=> (store[e].FailedBlobs = 0 /\ ~hist[e].hadError)

\* C5: ExecuteTask(t) called while a run of t is in flight returns an error,
\* creates no Execution record, starts no run and leaves the running map
\* unchanged.
C5_InFlightRefused ==
  [][\A t \in TaskIDs :
       (InFlight(t) /\ ExecuteTask(t)) =>
         /\ ExecuteTaskResult(t) # ""
         /\ UNCHANGED <<executions, store, runs, running>>]_vars

\* C6: once the status of an Execution is success, failed or canceled, no
\* later step changes its stored record or the object the run holds.
C6_TerminalWriteOnce ==
  [][\A e \in ExecIDs :
       Terminal(e) => (store'[e] = store[e] /\ executions'[e] = executions[e])]_vars

\* C6 witness: an Execution is terminal while a later Execution of the same
\* task has gone on to count blobs.
C6_Witness ==
  \E e, f \in ExecIDs :
    /\ e < f /\ Terminal(e) /\ store[e].TaskID = store[f].TaskID
    /\ store[f].SyncedBlobs + store[f].FailedBlobs > 0

\* C7: syncedBlobs + failedBlobs <= totalBlobs in every state, in the stored
\* record and in the object the run holds, with equality once the Execution
\* is terminal.
C7_CountersBounded ==
  \A e \in ExecIDs :
    /\ store[e].SyncedBlobs + store[e].FailedBlobs <= store[e].TotalBlobs
    /\ executions[e].SyncedBlobs + executions[e].FailedBlobs <= executions[e].TotalBlobs
    /\ Terminal(e) =>
         store[e].SyncedBlobs + store[e].FailedBlobs = store[e].TotalBlobs

\* C7 witness: a terminal Execution that copied some blobs and failed others.
C7_Witness ==
  \E e \in ExecIDs :
    Terminal(e) /\ store[e].SyncedBlobs > 0 /\ store[e].FailedBlobs > 0

CounterFields == {"TotalBlobs", "SyncedBlobs", "SkippedBlobs", "FailedBlobs", "SyncedSize"}

NoDecrease(x, y) == x = y \/ \A f \in CounterFields : x[f] <= y[f]

\* C8: no counter of an Execution decreases from one state to the next, and
\* syncedBlobs <= totalBlobs in the stored record and in every progress
\* event.
C8_CountersMonotone ==
  /\ [](\A e \in ExecIDs :
          /\ store[e].SyncedBlobs <= store[e].TotalBlobs
          /\ progress[e].synced_blobs <= progress[e].total_blobs)
  /\ [][\A e \in ExecIDs :
          /\ NoDecrease(store[e], store'[e])
          /\ NoDecrease(executions[e], executions'[e])]_vars

\* C8 witness: a progress event of the blob loop reports every planned blob
\* synced, some of them skipped.
C8_Witness ==
  \E e \in ExecIDs :
    /\ progress[e].kind = "blob"
    /\ progress[e].total_blobs > 0
    /\ progress[e].synced_blobs = progress[e].total_blobs
    /\ store[e].SkippedBlobs > 0 /\ store[e].SyncedSize > 0

C10_SecondRunNoUpload ==
  \A e \in ExecIDs :
    hist[e].seeded =>
      /\ ~hist[e].uploaded
      /\ executions[e].SyncedSize = 0
      /\ (runs[e].pc = "done" /\ ~hist[e].hadError) =>
           /\ store[e].TotalBlobs = PlanTotal(sourceTags)
           /\ store[e].SyncedBlobs = store[e].TotalBlobs
           /\ store[e].SkippedBlobs = store[e].TotalBlobs
           /\ store[e].SyncedSize = 0
           /\ store[e].Status = StatusSuccess

\* C10 witness: a first execution uploaded blobs and succeeded, and a second
\* one, started on the complete target, finished without a failed request.
C10_Witness ==
  \E p, e \in ExecIDs :
    /\ p < e
    /\ store[p].Status = StatusSuccess /\ hist[p].uploaded
    /\ store[p].FailedBlobs = 0
    /\ hist[e].seeded /\ runs[e].pc = "done" /\ ~hist[e].hadError
    /\ store[e].TotalBlobs > 0

(***************************************************************************)
(* Properties of the rule execution: progress, planning, preflight,        *)
(* architectures, retries, notifications.                                  *)
(***************************************************************************)
\* the blob loop of execution e broadcasts a progress event in this step:
\* every iteration that gets past BlobExists saves the record and broadcasts
BlobEventEmitted(e) == store'[e] # store[e] /\ RunBlob(e)

\* C24: once a progress event with synced_blobs = total_blobs has been
\* emitted for an Execution, the blob-copy loop of that Execution emits no
\* further progress event.
C24_NoBlobEventAfterComplete ==
  [][\A e \in ExecIDs :
       (progress[e].kind # "none" /\ progress[e].synced_blobs = progress[e].total_blobs)
         => ~BlobEventEmitted(e)]_vars

\* C24 witness: the blob loop emitted an event with synced_blobs =
\* total_blobs after counting a skipped and a copied blob, and the run has
\* not finished.
C24_Witness ==
  \E e \in ExecIDs :
    /\ progress[e].kind = "blob" /\ runs[e].pc = "sync"
    /\ progress[e].total_blobs > 1
    /\ progress[e].synced_blobs = progress[e].total_blobs

\* the run of execution e has planned and not yet finished
Planned(e) == runs[e].pc = "sync"

\* the blob references of a plan: one per position in the blob list of each
\* planned tag
BlobReferences(plan) ==
  UNION {{<<i, j>> : j \in 1..Len(GetAllBlobs(SourceManifest(plan[i])))} : i \in 1..Len(plan)}

\* C25 (as claimed): TotalBlobs set by the planning phase equals the number
\* of distinct blob digests the planned manifests reference.
C25_TotalCountsDistinctDigests ==
  \A e \in ExecIDs :
    Planned(e) =>
      executions[e].TotalBlobs =
        Cardinality(UNION {BlobDigests(runs[e].plan[i]) : i \in 1..Len(runs[e].plan)})

\* C25 (amended): TotalBlobs set by the planning phase equals the number of
\* blob references of the planned manifests, a digest referenced several
\* times being counted each time; it is the number of iterations the blob
\* loop will make.
C25_TotalCountsReferences ==
  \A e \in ExecIDs :
    Planned(e) =>
      /\ executions[e].TotalBlobs = Cardinality(BlobReferences(runs[e].plan))
      /\ store[e].TotalBlobs = executions[e].TotalBlobs

\* C25 witness: a planned run whose manifest references one digest twice.
C25_Witness ==
  \E e \in ExecIDs :
    /\ Planned(e) /\ Len(runs[e].plan) > 0
    /\ Cardinality(BlobReferences(runs[e].plan)) >
         Cardinality(UNION {BlobDigests(runs[e].plan[i]) : i \in 1..Len(runs[e].plan)})

\* the run of execution e ended in preflight: it returned its error without
\* listing tags, counting or copying a blob, or pushing a manifest, and it
\* ends with status failed
EndedInPreflight(e) ==
  /\ runs[e].pc \in {"return", "done"}
  /\ ~hist[e].listed /\ ~hist[e].uploaded
  /\ executions[e].TotalBlobs = 0 /\ executions[e].SyncedBlobs = 0
  /\ executions[e].FailedBlobs = 0
  /\ runs[e].pc = "done" => store[e].Status = StatusFailed

\* C26 (as claimed): if a ping fails, or the target-project existence check
\* fails, or creating the missing project fails, the run ends with status
\* failed and issues no ListTags, GetManifest, blob or manifest operation.
C26_PreflightFailureTerminal ==
  \A e \in ExecIDs : hist[e].preflightFailure # "" => EndedInPreflight(e)

\* C26 (amended): if a ping fails or creating the missing project fails, the
\* run ends with status failed and issues no ListTags, GetManifest, blob or
\* manifest operation; a failed existence check alone does not end the run.
C26_PingOrCreateFailureTerminal ==
  \A e \in ExecIDs :
    hist[e].preflightFailure \in {"ping", "create project"} => EndedInPreflight(e)

\* C26 witness: a run whose project creation failed has finished.
C26_Witness ==
  \E e \in ExecIDs :
    hist[e].preflightFailure = "create project" /\ runs[e].pc = "done"

\* C28: for a manifest-list tag on the target and a non-empty architecture
\* allow-list, exactly the children whose architecture is in the list have
\* their manifest and their blobs on the target.
C28_SelectedChildrenCopied ==
  \A ref \in targetManifests :
    IsManifestList(SourceManifest(ref)) =>
      \A c \in Range(SourceManifest(ref).Manifests) :
        (c.Digest \in targetManifests /\ BlobDigests(c.Digest) \subseteq targetBlobs)
          <=> c.Digest \in SelectedChildren(ref)

\* attempts the retry policy makes before it gives up on a retryable error
\* (config default MaxAttempts = 3; any policy that retries makes two)
PolicyAttempts == 2

\* C29: a blob copy that fails with a retryable error while the context is
\* live is counted in FailedBlobs only after the policy's attempts have all
\* failed.  (A failed copy is the iteration that counts a failure and saves
\* the record; each failed attempt spends one fault.)
C29_FailedAfterRetries ==
  [][\A e \in ExecIDs :
       ( /\ RunBlob(e) /\ ~runs[e].ctxDone
         /\ executions'[e].FailedBlobs = executions[e].FailedBlobs + 1
         /\ store'[e] # store[e] )
         => faults' >= faults + PolicyAttempts]_vars

\* C30: a run that CancelTask cancelled never triggers a task notification
\* with status failed.
C30_CancelledNotNotifiedFailed ==
  \A e \in ExecIDs : runs[e].ctxDone => hist[e].notified # StatusFailed

\* C35: while the background run of an execution of task t has not
\* finished, running[t] holds the cancel function of that run, so that
\* CancelTask(t) cancels the run that is executing and ExecuteTask(t) is
\* refused, after every sequence of operations.
C35_RunningHoldsCurrentRun ==
  \A e \in ExecIDs :
    runs[e].pc # "done" =>
      /\ running[store[e].TaskID] = e
      /\ ExecuteTaskResult(store[e].TaskID) # ""

\* the blob the next iteration of the blob loop of execution e is about
CurrentBlob(e) ==
  GetAllBlobs(SourceManifest(runs[e].plan[runs[e].ti]))[runs[e].bi]

\* C33: an iteration for a blob that is on the target (a step of the blob
\* loop moves on to the next blob), unless the check itself failed, adds one to SyncedBlobs and to SkippedBlobs, leaves
\* FailedBlobs and SyncedSize as they were, and calls no CopyBlob: nothing
\* is uploaded and no request of a copy can fail.
C33_SkipBranchEffect ==
  [][\A e \in ExecIDs :
       (runs'[e].bi = runs[e].bi + 1 /\ RunBlob(e)
          /\ CurrentBlob(e).Digest \in targetBlobs) =>
         \/ /\ executions'[e] = CountFailed(executions[e])
            /\ store' = store
         \/ /\ executions'[e].SyncedBlobs = executions[e].SyncedBlobs + 1
            /\ executions'[e].SkippedBlobs = executions[e].SkippedBlobs + 1
            /\ executions'[e].FailedBlobs = executions[e].FailedBlobs
            /\ executions'[e].SyncedSize = executions[e].SyncedSize
            /\ store'[e] = executions'[e]
            /\ targetBlobs' = targetBlobs
            /\ faults' = faults
            /\ hist'[e].uploaded = hist[e].uploaded
            /\ hist'[e].hadError = hist[e].hadError]_vars

\* C33 witness: the second reference to a layer was skipped after the
\* first was copied.
C33_Witness ==
  \E e \in ExecIDs :
    /\ executions[e].SkippedBlobs = 1 /\ executions[e].SyncedBlobs = 2
    /\ executions[e].SyncedSize = 2 /\ executions[e].FailedBlobs = 0
    /\ hist[e].uploaded /\ ~hist[e].hadError

(***************************************************************************)
(* RetryWithBackoff (pkg/sync/retry.go), called with a function that is a  *)
(* blob copy: each invocation succeeds or fails with the error of a        *)
(* registry operation, a transport error or the context's error.           *)
(***************************************************************************)
\* largest MaxAttempts and largest interval (in time units) tried
MaxRetryAttempts == 3
MaxDuration == 2

RetryConfigs ==
  [MaxAttempts : 0..MaxRetryAttempts, InitialInterval : 0..MaxDuration,
   MaxInterval : 0..MaxDuration]

RetryableCodes == {"429", "500", "502", "503", "504"}
NonRetryableCodes == {"400", "401", "403", "404"}

\* the reason phrase of a status, lower case, as a server puts it in a body
ReasonPhrase(code) ==
  CASE code = "429" -> "too many requests"
    [] code = "500" -> "internal server error"
    [] code = "502" -> "bad gateway"
    [] code = "503" -> "service unavailable"
    [] code = "504" -> "gateway timeout"
    [] code = "400" -> "bad request"
    [] code = "401" -> "unauthorized"
    [] code = "403" -> "forbidden"
    [] OTHER -> "not found"

\* the errors one invocation of CopyBlob can return: a status answered to
\* BlobExists (which returns no error for 404) or to GetBlob, with an empty
\* body or one that spells the reason; a transport timeout; the context's
\* error
HTTPErrors ==
  [kind : {"http"}, op : {"BlobExists"}, code : (RetryableCodes \cup NonRetryableCodes) \ {"404"},
   body : {""}]
  \cup [kind : {"http"}, op : {"GetBlob"}, code : RetryableCodes \cup NonRetryableCodes,
        body : {"", "reason"}]

NetTimeout == [kind |-> "net", op |-> "", code |-> "", body |-> ""]
CtxCanceled == [kind |-> "ctx", op |-> "", code |-> "", body |-> ""]
NoError == [kind |-> "nil", op |-> "", code |-> "", body |-> ""]

\* err.Error(), lower case, as the set of fragments it contains:
\* BlobExists reports "unexpected status code: %d", GetBlob reports
\* "failed to get blob: %d %s" with the response body
ErrorText(err) ==
  IF err.op = "BlobExists"
  THEN {"failed to check blob existence", "status code", err.code}
  ELSE {"failed to download blob", "failed to get blob", err.code}
       \cup (IF err.body = "reason" THEN {ReasonPhrase(err.code)} ELSE {})

retryablePatterns ==
  {"timeout", "temporary", "connection reset", "connection refused",
   "too many requests", "rate limit", "service unavailable", "bad gateway",
   "gateway timeout"}

\* strings.Contains on the fragments: a fragment contains a pattern when it
\* is the pattern or ends with it ("gateway timeout" contains "timeout")
Contains(text, pattern) ==
  \/ pattern \in text
  \/ pattern = "timeout" /\ "gateway timeout" \in text

\* lines 80-151
isRetryableError(err) ==
  CASE err.kind = "nil" -> FALSE
    [] err.kind = "ctx" -> FALSE
    [] err.kind = "net" -> TRUE
    [] OTHER ->
         \/ \E pat \in retryablePatterns : Contains(ErrorText(err), pat)
         \/ /\ Contains(ErrorText(err), "status code")
            /\ \E c \in RetryableCodes : Contains(ErrorText(err), c)

Min(a, b) == IF a < b THEN a ELSE b

\* the next interval as it would be without the doubling
NextBackoffNoDouble(backoff, maxInterval) ==
  IF backoff > maxInterval THEN maxInterval ELSE backoff

\* lines 70-73: backoff *= 2, capped at MaxInterval
NextBackoff(backoff, maxInterval) ==
  IF backoff * 2 > maxInterval THEN maxInterval ELSE backoff * 2

\* lines 35-36: the locals a call starts with
NewRetry(cfg) ==
  [pc |-> "loop", cfg |-> cfg, attempt |-> 1, backoff |-> cfg.InitialInterval,
   lastErr |-> NoError, ctxDone |-> FALSE, result |-> "",
   calls |-> 0, fails |-> 0, sleeps |-> <<>>, cancelledIn |-> ""]

\* line 63 and lines 70-73: the timer fired, go to the next attempt
AfterTimer(r) ==
  [r EXCEPT !.sleeps = Append(@, r.backoff),
            !.backoff = NextBackoff(r.backoff, r.cfg.MaxInterval),
            !.attempt = @ + 1, !.pc = "loop"]

Return(r, res) == [r EXCEPT !.pc = "done", !.result = res]

\* the select of lines 62-67 when it is reached: a case that is ready is
\* taken at once (either one when both are), otherwise the call blocks
EnterSelect(r) ==
  (IF r.ctxDone THEN {Return(r, "ctx")} ELSE {})
  \cup (IF r.backoff = 0 THEN {AfterTimer(r)} ELSE {})
  \cup (IF ~r.ctxDone /\ r.backoff > 0 THEN {[r EXCEPT !.pc = "sleep"]} ELSE {})

\* the test as it would be if it let the attempt after the last one sleep
LastAttemptOffByOne(r) == r.attempt > r.cfg.MaxAttempts

\* lines 52-54: no attempt is left, leave the loop without sleeping
LastAttempt(r) == r.attempt >= r.cfg.MaxAttempts

\* lines 38-55: one turn of the loop up to the select
RetryAttempt ==
  /\ retry.pc = "loop"
  /\ IF retry.attempt > retry.cfg.MaxAttempts
     THEN retry' = Return(retry, "exhausted")
     ELSE \E err \in {NoError, NetTimeout} \cup HTTPErrors
                     \cup (IF retry.ctxDone THEN {CtxCanceled} ELSE {}) :
            LET r == [retry EXCEPT !.calls = @ + 1] IN
            IF err = NoError THEN retry' = Return(r, "nil")
            ELSE LET f == [r EXCEPT !.lastErr = err,
                                    !.fails = IF isRetryableError(err) THEN @ + 1 ELSE @]
                 IN IF ~isRetryableError(err) THEN retry' = Return(f, "nonretryable")
                    ELSE IF LastAttempt(f)
                         THEN retry' = Return(f, "exhausted")
                         ELSE retry' \in EnterSelect(f)
  /\ UNCHANGED <<schedVars, pool, client, restVars>>

\* line 63: the timer fires while the call is blocked in the select
RetryTimer ==
  /\ retry.pc = "sleep"
  /\ retry' = AfterTimer(retry)
  /\ UNCHANGED <<schedVars, pool, client, restVars>>

\* the cancellation as it would be if the sleep did not watch the context
CancelSleepsOn(r) == [r EXCEPT !.ctxDone = TRUE, !.cancelledIn = r.pc]

\* the context is cancelled: a call blocked in the select takes the
\* ctx.Done case, lines 65-66
CancelWakes(r) ==
  IF r.pc = "sleep"
  THEN Return([r EXCEPT !.ctxDone = TRUE, !.cancelledIn = r.pc], "ctx")
  ELSE [r EXCEPT !.ctxDone = TRUE, !.cancelledIn = r.pc]

RetryCancel ==
  /\ retry.pc \in {"loop", "sleep"}
  /\ ~retry.ctxDone
  /\ retry' = CancelWakes(retry)
  /\ UNCHANGED <<schedVars, pool, client, restVars>>

RetryInit ==
  /\ sourceTags = <<"v1">>
  /\ SchedInit
  /\ retry \in {NewRetry(cfg) : cfg \in RetryConfigs}
  /\ pool = NoPool /\ client = NoClient
  /\ RestIdle

RetryNext == RetryAttempt \/ RetryTimer \/ RetryCancel

SpecRetry == RetryInit /\ [][RetryNext]_vars

RECURSIVE Pow2(_)
Pow2(n) == IF n = 0 THEN 1 ELSE 2 * Pow2(n - 1)

RECURSIVE SumSeq(_)
SumSeq(q) == IF q = <<>> THEN 0 ELSE Head(q) + SumSeq(Tail(q))

\* the k-th delay of the schedule: InitialInterval, then the double of the
\* one before, cut at MaxInterval
Delay(cfg, k) ==
  IF k = 1 THEN cfg.InitialInterval
  ELSE Min(cfg.InitialInterval * Pow2(k - 1), cfg.MaxInterval)

\* C12: a call that returned nil after k retryable failures invoked op
\* exactly k + 1 times, with k < MaxAttempts, and slept exactly k times, the
\* first k delays of the schedule, InitialInterval + 2*InitialInterval for
\* k = 2 below the cap.
C12_SuccessAfterKFailures ==
  (retry.pc = "done" /\ retry.result = "nil") =>
    LET k == retry.fails IN
      /\ k < retry.cfg.MaxAttempts
      /\ retry.calls = k + 1
      /\ Len(retry.sleeps) = k
      /\ \A i \in 1..k : retry.sleeps[i] = Delay(retry.cfg, i)
      /\ SumSeq(retry.sleeps) = SumSeq([i \in 1..k |-> Delay(retry.cfg, i)])
      /\ (k = 2 /\ 2 * retry.cfg.InitialInterval <= retry.cfg.MaxInterval)
           => SumSeq(retry.sleeps) = 3 * retry.cfg.InitialInterval

\* C12 witness: success on the third invocation after two sleeps of
\* different length.
C12_Witness ==
  /\ retry.pc = "done" /\ retry.result = "nil"
  /\ retry.fails = 2 /\ retry.calls = 3
  /\ retry.sleeps = <<1, 2>>

\* C13: the k-th backoff sleep lasts min(InitialInterval * 2^(k-1),
\* MaxInterval); no sleep is longer than MaxInterval.
C13_SleepCapped ==
  \A k \in 1..Len(retry.sleeps) :
    /\ retry.sleeps[k] = Min(retry.cfg.InitialInterval * Pow2(k - 1), retry.cfg.MaxInterval)
    /\ retry.sleeps[k] <= retry.cfg.MaxInterval

\* C14: a cancellation that arrives while the call is blocked in a backoff
\* sleep makes it return the context's error, and op is not invoked again.
C14_CancelDuringSleep ==
  [][/\ (retry.pc = "sleep" /\ retry'.ctxDone)
          => (retry'.pc = "done" /\ retry'.result = "ctx" /\ retry'.calls = retry.calls)
     /\ retry.pc = "done" => retry' = retry]_vars

\* C14 witness: a call cancelled in its second sleep has returned the
\* context's error.
C14_Witness ==
  /\ retry.pc = "done" /\ retry.result = "ctx"
  /\ retry.cancelledIn = "sleep"
  /\ Len(retry.sleeps) = 1 /\ retry.calls = 2

\* C15: an error that comes from a 429, 500, 502, 503 or 504 answer is
\* retried while attempts remain (the call does not return it as
\* non-retryable), and an error from a 400, 401, 403 or 404 answer ends the
\* call at once.
C15_StatusClassified ==
  retry.lastErr.kind = "http" =>
    /\ (retry.pc = "done" /\ retry.result = "nonretryable")
         => retry.lastErr.code \notin RetryableCodes
    /\ (retry.pc \in {"loop", "sleep"} \/ retry.result \in {"exhausted", "ctx"})
         => retry.lastErr.code \notin NonRetryableCodes

\* C32: with MaxAttempts >= 1 the call invokes op at least once and at most
\* MaxAttempts times, never invokes it again after it returned nil or an
\* error that is not retryable, and does not sleep after such an error or
\* after the last permitted attempt.
C32_AttemptsBounded ==
  /\ [](retry.pc # "none" /\ retry.cfg.MaxAttempts >= 1 =>
          /\ retry.calls <= retry.cfg.MaxAttempts
          /\ retry.pc = "done" => retry.calls >= 1
          /\ Len(retry.sleeps) < retry.cfg.MaxAttempts
          /\ Len(retry.sleeps) <= retry.calls
          /\ retry.pc = "sleep" =>
                retry.calls < retry.cfg.MaxAttempts /\ isRetryableError(retry.lastErr)
          /\ retry.result \in {"nil", "nonretryable", "exhausted"} =>
                Len(retry.sleeps) = retry.calls - 1)
  /\ [][(retry.pc # "none" /\ retry'.calls > retry.calls) =>
          /\ retry.calls = 0 \/ isRetryableError(retry.lastErr)
          /\ retry.result = ""
          /\ retry'.calls = retry.calls + 1]_vars

\* C32 witness: the second invocation returned an error that is not
\* retryable, after one sleep, with a third attempt still permitted.
C32_Witness ==
  /\ retry.pc = "done" /\ retry.result = "nonretryable"
  /\ retry.cfg.MaxAttempts = 3 /\ retry.calls = 2 /\ Len(retry.sleeps) = 1

(***************************************************************************)
(* WorkerPool (pkg/sync/worker.go), used as Engine.SyncSingleManifest uses *)
(* it: NewWorkerPool, Start, one Submit per task (Stop and return when a   *)
(* Submit fails), Wait.  The context the pool derives its own from may be  *)
(* cancelled at any moment.                                                *)
(***************************************************************************)
\* largest number of workers and of tasks tried
MaxWorkers == 2
MaxTasks == 4

\* the caller has returned, from Wait or after a failed Submit
PoolCallerDone(p) == p.caller \in {"returned", "stopped"}

\* the buffer as it would be with one slot more
QueueCapOneMore(workers) == workers * 2 + 1

\* line 37: make(chan Task, workers*2)
QueueCap(workers) == workers * 2

\* lines 32-42, with the tasks the caller is going to submit
NewWorkerPool(workers, tasks) ==
  [pc |-> "pool", workers |-> workers, tasks |-> tasks,
   queue |-> <<>>, closed |-> FALSE, ctxDone |-> FALSE,
   worker |-> [w \in 1..workers |-> "unstarted"],
   running |-> [w \in 1..workers |-> 0],
   caller |-> "start", next |-> 1,
   errors |-> <<>>, totalTasks |-> 0, doneTasks |-> 0, failedTasks |-> 0,
   accepted |-> {}, executed |-> [t \in 1..tasks |-> 0], late |-> {}]

\* lines 45-50
PoolStart ==
  /\ pool.caller = "start"
  /\ pool' = [pool EXCEPT !.worker = [w \in 1..pool.workers |-> "idle"],
                          !.caller = "loop"]
  /\ UNCHANGED <<schedVars, retry, client, restVars>>

\* line 78, and the caller's loop of part_001 lines 513-538: the next task
\* is handed to Submit, or the loop is over and Wait closes the channel
\* (line 90).  late records the tasks whose Submit began with the context
\* already cancelled (history)
PoolSubmitEnter ==
  /\ pool.caller = "loop"
  /\ IF pool.next <= pool.tasks
     THEN pool' = [pool EXCEPT !.totalTasks = @ + 1, !.caller = "sending",
                               !.late = IF pool.ctxDone THEN @ \cup {pool.next} ELSE @]
     ELSE pool' = [pool EXCEPT !.closed = TRUE, !.caller = "waiting"]
  /\ UNCHANGED <<schedVars, retry, client, restVars>>

\* line 83: the channel takes the task
PoolSubmitSend ==
  /\ pool.caller = "sending"
  /\ Len(pool.queue) < QueueCap(pool.workers)
  /\ pool' = [pool EXCEPT !.queue = Append(@, pool.next),
                          !.accepted = @ \cup {pool.next},
                          !.next = @ + 1, !.caller = "loop"]
  /\ UNCHANGED <<schedVars, retry, client, restVars>>

\* lines 81-82: Submit returns the context's error; the caller stops the
\* pool and returns (part_001 lines 534-537)
PoolSubmitCtx ==
  /\ pool.caller = "sending"
  /\ pool.ctxDone
  /\ pool' = [pool EXCEPT !.caller = "stopped"]
  /\ UNCHANGED <<schedVars, retry, client, restVars>>

\* line 60: a worker at its select receives the task at the head
PoolWorkerTake(w) ==
  /\ pool.worker[w] = "idle"
  /\ pool.queue # <<>>
  /\ pool' = [pool EXCEPT !.queue = Tail(@),
                          !.worker[w] = "executing",
                          !.running[w] = Head(pool.queue)]
  /\ UNCHANGED <<schedVars, retry, client, restVars>>

\* the receive as it would be if a closed channel gave no more tasks
ChannelClosedAtOnce(p) == p.closed

\* lines 60-63: a receive reports !ok once the channel is closed and empty
ChannelDrained(p) == p.closed /\ p.queue = <<>>

\* lines 58-59 and 61-63: a worker leaves on cancellation or when the
\* channel is closed and empty
PoolWorkerExit(w) ==
  /\ pool.worker[w] = "idle"
  /\ pool.ctxDone \/ ChannelDrained(pool)
  /\ pool' = [pool EXCEPT !.worker[w] = "exited"]
  /\ UNCHANGED <<schedVars, retry, client, restVars>>

\* the failure of a task as it would be if it cancelled the pool
TaskFailedCancels(p, w) ==
  [p EXCEPT !.errors = Append(@, p.running[w]), !.failedTasks = @ + 1,
            !.ctxDone = TRUE]

\* lines 66-69: addError and failedTasks++
TaskFailed(p, w) ==
  [p EXCEPT !.errors = Append(@, p.running[w]), !.failedTasks = @ + 1]

\* line 70: doneTasks++, and the worker is back at its select
TaskDone(p, w) ==
  [p EXCEPT !.doneTasks = @ + 1, !.worker[w] = "idle", !.running[w] = 0]

\* lines 66-70: Execute returns; without an error the worker goes on to
\* line 70, with an error it first records it and adds to failedTasks
PoolWorkerFinish(w) ==
  /\ pool.worker[w] = "executing"
  /\ LET p == [pool EXCEPT !.executed[pool.running[w]] = @ + 1]
     IN \/ pool' = TaskDone(p, w)
        \/ pool' = [TaskFailed(p, w) EXCEPT !.worker[w] = "failed"]
  /\ UNCHANGED <<schedVars, retry, client, restVars>>

\* line 70 after a failed task
PoolWorkerDone(w) ==
  /\ pool.worker[w] = "failed"
  /\ pool' = TaskDone(pool, w)
  /\ UNCHANGED <<schedVars, retry, client, restVars>>

\* lines 91-97: wg.Wait is over when every worker has left
PoolWaitReturn ==
  /\ pool.caller = "waiting"
  /\ \A w \in 1..pool.workers : pool.worker[w] = "exited"
  /\ pool' = [pool EXCEPT !.caller = "returned"]
  /\ UNCHANGED <<schedVars, retry, client, restVars>>

\* the parent context is cancelled
PoolCancel ==
  /\ pool.pc = "pool"
  /\ ~pool.ctxDone
  /\ ~PoolCallerDone(pool)
  /\ pool' = [pool EXCEPT !.ctxDone = TRUE]
  /\ UNCHANGED <<schedVars, retry, client, restVars>>

PoolInit ==
  /\ sourceTags = <<"v1">>
  /\ SchedInit
  /\ pool \in {NewWorkerPool(n, t) : n \in 0..MaxWorkers, t \in 0..MaxTasks}
  /\ retry = NoRetry /\ client = NoClient
  /\ RestIdle

PoolNext ==
  \/ PoolStart
  \/ PoolSubmitEnter
  \/ PoolSubmitSend
  \/ PoolSubmitCtx
  \/ \E w \in 1..pool.workers : PoolWorkerTake(w)
  \/ \E w \in 1..pool.workers : PoolWorkerExit(w)
  \/ \E w \in 1..pool.workers : PoolWorkerFinish(w)
  \/ \E w \in 1..pool.workers : PoolWorkerDone(w)
  \/ PoolWaitReturn
  \/ PoolCancel

SpecPool == PoolInit /\ [][PoolNext]_vars

Executing(p) == {w \in 1..p.workers : p.worker[w] = "executing"}

\* C16: when Wait has returned and the pool context was never cancelled,
\* every accepted task was executed exactly once, nothing is executing and
\* doneTasks is the number of accepted tasks.
C16_WaitDrains ==
  (pool.caller = "returned" /\ ~pool.ctxDone) =>
    /\ \A t \in pool.accepted : pool.executed[t] = 1
    /\ Executing(pool) = {}
    /\ pool.queue = <<>>
    /\ pool.doneTasks = Cardinality(pool.accepted)

\* C16 witness: Wait returned after more tasks than the pool has workers
\* and buffer slots, one of them failed.
C16_Witness ==
  /\ pool.caller = "returned" /\ ~pool.ctxDone
  /\ pool.workers = 1 /\ Cardinality(pool.accepted) = 4
  /\ pool.failedTasks = 1

\* C17: at most N tasks are inside Execute and at most 2N are queued, and a
\* Submit leaves its select only when the queue has a free slot or the pool
\* context is cancelled.
C17_BoundedPool ==
  /\ [](/\ Cardinality(Executing(pool)) <= pool.workers
        /\ Len(pool.queue) <= 2 * pool.workers)
  /\ [][(pool.caller = "sending" /\ pool'.caller # "sending")
          => (Len(pool.queue) < 2 * pool.workers \/ pool.ctxDone)]_vars

\* C17 witness: the queue holds 2N tasks, N workers are executing and the
\* submitter is blocked with the next task.
C17_Witness ==
  /\ pool.workers = 1 /\ Len(pool.queue) = 2
  /\ Cardinality(Executing(pool)) = 1
  /\ pool.caller = "sending" /\ ~pool.ctxDone

\* C18: a step in which a task returns an error changes the error list and
\* the failed counter only: the context is not cancelled, the queue and the
\* other workers are untouched and the worker goes on to count the task as
\* done and back to its select; the tasks accepted are all executed when
\* Wait returns.
C18_TaskErrorIsLocal ==
  /\ [][Len(pool'.errors) > Len(pool.errors) =>
          /\ pool'.ctxDone = pool.ctxDone
          /\ pool'.queue = pool.queue /\ pool'.closed = pool.closed
          /\ pool'.accepted = pool.accepted /\ pool'.caller = pool.caller
          /\ pool'.failedTasks = pool.failedTasks + 1
          /\ pool'.doneTasks = pool.doneTasks
          /\ \A w \in 1..pool.workers :
               \/ pool'.worker[w] = pool.worker[w]
               \/ pool.worker[w] = "executing" /\ pool'.worker[w] = "failed"]_vars
  /\ []((pool.caller = "returned" /\ ~pool.ctxDone)
          => \A t \in pool.accepted : pool.executed[t] = 1)

\* C18 witness: the first task failed and, with the context never
\* cancelled, Wait returned after the tasks behind it were executed.
C18_Witness ==
  /\ pool.caller = "returned" /\ ~pool.ctxDone
  /\ Len(pool.errors) > 0 /\ pool.errors[1] = 1
  /\ Cardinality(pool.accepted) >= 3
  /\ pool.doneTasks > pool.failedTasks

\* C36: when Wait returns nil, every task a Submit call accepted has been
\* executed and returned nil, also when the pool context was cancelled
\* while tasks were queued.
C36_WaitNilAllExecuted ==
  (pool.caller = "returned" /\ pool.errors = <<>>) =>
    \A t \in pool.accepted : pool.executed[t] = 1

\* C37: at every instant failedTasks <= doneTasks <= totalTasks, and
\* totalTasks is the number of tasks Submit accepted into the queue.
C37_CountersOrdered ==
  pool.pc # "none" =>
    /\ pool.failedTasks <= pool.doneTasks
    /\ pool.doneTasks <= pool.totalTasks
    /\ pool.totalTasks = Cardinality(pool.accepted)

\* C38: a Submit call that begins after the pool context was cancelled
\* returns the context's error, and its task is never enqueued or executed.
C38_LateSubmitRefused ==
  pool.pc # "none" =>
    /\ pool.late \cap pool.accepted = {}
    /\ \A t \in pool.late : pool.executed[t] = 0 /\ t \notin Range(pool.queue)
    /\ (pool.late # {} /\ pool.caller # "sending") => pool.caller = "stopped"

(***************************************************************************)
(* registry.Client (pkg/registry/manifest.go, blob.go): one operation of a *)
(* client, with every HTTP request it sends.  The server's answers are the *)
(* environment's choice.                                                   *)
(***************************************************************************)
\* length of the manifest's raw bytes tried
RawLen == 2

\* manifest.Raw as GetManifest stored it
ManifestRaw == [i \in 1..RawLen |-> i]

ClientOps == {"GetManifest", "PutManifest", "PutBlob", "CreateProject"}

Statuses == {200, 201, 202, 401, 404, 500}

\* what a server can answer: a status, for 401 with a WWW-Authenticate
\* header that is absent, a Bearer challenge with a realm, or one without,
\* and for 202 with or without a Location header
Responses ==
  [status : Statuses \ {401, 202}, challenge : {""}, location : {TRUE}]
  \cup [status : {401}, challenge : {"", "bearer", "norealm"}, location : {TRUE}]
  \cup [status : {202}, challenge : {""}, location : BOOLEAN]

NoResponse == [status |-> 0, challenge |-> "", location |-> TRUE]

\* the token the auth server hands out
Token == "xyz"

\* NewClient and the start of one operation: the limiter is enabled when
\* qps > 0; the reader over the request body has not been read
NewClientOp(op, limited) ==
  [pc |-> IF op = "CreateProject" THEN "harbor" ELSE "wait",
   op |-> op, limited |-> limited,
   offset |-> 0, waits |-> 0, sent |-> <<>>, tokenReqs |-> 0,
   first |-> NoResponse, second |-> NoResponse,
   ret |-> NoResponse, err |-> "", stored |-> FALSE, accepted |-> <<>>,
   patched |-> 0, completed |-> 0]

\* the body the operation hands doRequest: PutManifest passes a reader over
\* manifest.Raw (line 91), the others pass nil
HasBody(op) == op = "PutManifest"

\* what a request built over the reader carries: the bytes not read yet
RemainingBody(c) ==
  IF HasBody(c.op) THEN SubSeq(ManifestRaw, c.offset + 1, RawLen) ELSE <<>>

HTTPRequest(kind, body, auth) == [kind |-> kind, body |-> body, auth |-> auth]

\* lines 276-279: Limiter.Wait; a disabled limiter returns nil at once, an
\* enabled one hands out a token or returns the context's error
ClientWait ==
  /\ client.pc = "wait"
  /\ \/ client' = [client EXCEPT !.pc = "send",
                                 !.waits = IF client.limited THEN @ + 1 ELSE @]
     \/ /\ client.limited
        /\ client' = [client EXCEPT !.pc = "done", !.err = "limiter"]
  /\ UNCHANGED <<schedVars, retry, pool, restVars>>

\* how the operation goes on with the response doRequest returned
AfterDoRequest(c, resp) ==
  CASE c.op = "PutBlob" /\ resp.status = 202 /\ resp.location ->
         [c EXCEPT !.ret = resp, !.pc = "patch"]
    [] c.op = "PutBlob" /\ resp.status = 202 /\ ~resp.location ->
         [c EXCEPT !.ret = resp, !.pc = "done", !.err = "no upload location"]
    [] c.op = "PutBlob" /\ resp.status = 201 ->
         [c EXCEPT !.ret = resp, !.pc = "done", !.err = "blob already exists"]
    [] c.op = "PutBlob" /\ resp.status \notin {201, 202} ->
         [c EXCEPT !.ret = resp, !.pc = "done", !.err = "status"]
    [] c.op = "PutManifest" /\ resp.status \in {200, 201} ->
         [c EXCEPT !.ret = resp, !.pc = "done"]
    [] c.op = "GetManifest" /\ resp.status = 200 -> [c EXCEPT !.ret = resp, !.pc = "done"]
    [] OTHER -> [c EXCEPT !.ret = resp, !.pc = "done", !.err = "status"]

\* the target stores the manifest it answers 200 or 201 to
Accept(c, body, resp) ==
  IF c.op = "PutManifest" /\ resp.status \in {200, 201}
  THEN [c EXCEPT !.stored = TRUE, !.accepted = body] ELSE c

\* lines 281-334 up to the first response: the request is sent with basic
\* auth, the transport reads some or all of the body
ClientSend ==
  /\ client.pc = "send"
  /\ \E read \in 0..Len(RemainingBody(client)) :
       LET body == RemainingBody(client)
           c == [client EXCEPT !.sent = Append(@, HTTPRequest("original", body, "basic")),
                               !.offset = @ + read]
       IN \/ client' = [c EXCEPT !.pc = "done", !.err = "transport"]
          \/ \E resp \in Responses :
               LET r == Accept([c EXCEPT !.first = resp], body, resp) IN
               client' =
                 IF resp.status # 401 THEN AfterDoRequest(r, resp)
                 ELSE IF resp.challenge = "" THEN [r EXCEPT !.pc = "resendBasic"]
                 ELSE IF resp.challenge = "norealm"
                      THEN [r EXCEPT !.pc = "done", !.err = "failed to get bearer token"]
                      ELSE [r EXCEPT !.pc = "token"]
  /\ UNCHANGED <<schedVars, retry, pool, restVars>>

\* lines 363-397: one GET to the realm
ClientToken ==
  /\ client.pc = "token"
  /\ LET c == [client EXCEPT !.tokenReqs = @ + 1,
                             !.sent = Append(@, HTTPRequest("token", <<>>, "basic"))]
     IN \/ client' = [c EXCEPT !.pc = "resendBearer"]
        \/ client' = [c EXCEPT !.pc = "done", !.err = "failed to get bearer token"]
  /\ UNCHANGED <<schedVars, retry, pool, restVars>>

\* the second answer as it would be handled if a 401 started the
\* authentication over
AfterResendAgain(c, resp) ==
  IF resp.status = 401 /\ resp.challenge = "bearer"
  THEN [c EXCEPT !.second = resp, !.pc = "token"]
  ELSE AfterDoRequest([c EXCEPT !.second = resp], resp)

\* lines 316 and 331: whatever the second answer is, doRequest returns it
AfterResend(c, resp) == AfterDoRequest([c EXCEPT !.second = resp], resp)

\* lines 311-316 and 326-331: the request is built again over the same
\* reader and sent, with basic auth or with the token
ClientResend ==
  /\ client.pc \in {"resendBasic", "resendBearer"}
  /\ LET body == RemainingBody(client)
         auth == IF client.pc = "resendBearer" THEN Token ELSE "basic"
         c == [client EXCEPT !.sent = Append(@, HTTPRequest("original", body, auth)),
                             !.offset = Len(ManifestRaw)]
     IN \/ client' = [c EXCEPT !.pc = "done", !.err = "transport"]
        \/ \E resp \in Responses : client' = AfterResend(Accept(c, body, resp), resp)
  /\ UNCHANGED <<schedVars, retry, pool, restVars>>

\* uploadContent as it would go on if any 2xx answer to the PATCH counted
AfterUploadContentAny2xx(c, status, location) ==
  IF status \in {200, 201, 202} /\ location
  THEN [c EXCEPT !.patched = status, !.pc = "complete"]
  ELSE [c EXCEPT !.patched = status, !.pc = "done", !.err = "failed to upload content"]

\* blob.go lines 147-161: only 202 with a Location header lets PutBlob go
\* on to completeUpload
AfterUploadContent(c, status, location) ==
  IF status = 202 /\ location
  THEN [c EXCEPT !.patched = status, !.pc = "complete"]
  ELSE [c EXCEPT !.patched = status, !.pc = "done", !.err = "failed to upload content"]

\* blob.go lines 122-162: uploadContent sends the PATCH itself
ClientPatch ==
  /\ client.pc = "patch"
  /\ LET c == [client EXCEPT !.sent = Append(@, HTTPRequest("patch", <<>>, "basic"))]
     IN \E status \in Statuses, location \in BOOLEAN :
          client' = AfterUploadContent(c, status, location)
  /\ UNCHANGED <<schedVars, retry, pool, restVars>>

\* blob.go lines 165-200: completeUpload sends the PUT itself
ClientComplete ==
  /\ client.pc = "complete"
  /\ LET c == [client EXCEPT !.sent = Append(@, HTTPRequest("complete", <<>>, "basic"))]
     IN \E status \in Statuses :
          client' = IF status = 201 THEN [c EXCEPT !.completed = status, !.pc = "done"]
                    ELSE [c EXCEPT !.completed = status, !.pc = "done",
                                   !.err = "failed to complete upload"]
  /\ UNCHANGED <<schedVars, retry, pool, restVars>>

\* manifest.go lines 668-712: createHarborProject sends the POST itself
ClientHarbor ==
  /\ client.pc = "harbor"
  /\ LET c == [client EXCEPT !.sent = Append(@, HTTPRequest("harbor", <<>>, "basic"))]
     IN \E status \in Statuses :
          client' = IF status \in {200, 201} THEN [c EXCEPT !.pc = "done"]
                    ELSE [c EXCEPT !.pc = "done", !.err = "failed to create project"]
  /\ UNCHANGED <<schedVars, retry, pool, restVars>>

ClientInit ==
  /\ sourceTags = <<"v1">>
  /\ SchedInit
  /\ client \in {NewClientOp(op, limited) : op \in ClientOps, limited \in BOOLEAN}
  /\ retry = NoRetry /\ pool = NoPool
  /\ RestIdle

ClientNext ==
  \/ ClientWait
  \/ ClientSend
  \/ ClientToken
  \/ ClientResend
  \/ ClientPatch
  \/ ClientComplete
  \/ ClientHarbor

SpecClient == ClientInit /\ [][ClientNext]_vars

\* the requests sent so far of the given kinds
SentOf(kinds) == SelectSeq(client.sent, LAMBDA q : q.kind \in kinds)

\* C11: the body of the PUT the target accepts is manifest.Raw, on every
\* path of PutManifest, the re-send after a 401 included.
C11_RawPreserved ==
  client.op = "PutManifest" =>
    (client.stored => client.accepted = ManifestRaw)

\* C19: with the limiter enabled, every request other than the token
\* request has a Limiter.Wait acquisition of its own before it.
C19_EveryRequestGated ==
  client.limited =>
    Len(SentOf({"original", "patch", "complete", "harbor"})) <= client.waits

\* C20: the original request is sent at most twice and the token endpoint
\* is contacted at most once; after a 401 with a challenge and a token the
\* request goes out once more with the bearer token, and the caller gets
\* the second response whatever its status.
C20_OneReauthentication ==
  /\ Len(SentOf({"original"})) <= 2
  /\ client.tokenReqs <= 1
  /\ Len(SentOf({"token"})) = client.tokenReqs
  /\ client.second # NoResponse =>
       /\ Len(SentOf({"original"})) = 2
       /\ client.ret = client.second
       /\ client.first.challenge = "bearer" =>
            /\ client.tokenReqs = 1
            /\ SentOf({"original"})[2].auth = Token
       /\ client.pc \in {"done", "patch", "complete"}

\* C20 witness: the second answer was a 401 again and is what the caller
\* got, after one token request.
C20_Witness ==
  /\ client.op = "GetManifest" /\ client.pc = "done"
  /\ client.first.challenge = "bearer" /\ client.tokenReqs = 1
  /\ client.second.status = 401 /\ client.second.challenge = "bearer"
  /\ client.ret = client.second

\* the kinds of the requests PutBlob sent to the target, in order
UploadSteps ==
  LET q == SentOf({"original", "patch", "complete"})
  IN [i \in 1..Len(q) |-> q[i].kind]

IsPrefix(s, t) == Len(s) <= Len(t) /\ s = SubSeq(t, 1, Len(s))

\* blob.go lines 251-254: CopyBlob hands PutBlob's error on, wrapped
CopyBlobReturn(c) == IF c.err # "" THEN "failed to upload blob" ELSE ""

\* the steps of PutBlob come in the order POST, PATCH, PUT; the PATCH
\* only after doRequest returned 202 for the POST, the PUT only after the
\* PATCH was answered 202; nil is returned only after a PUT answered 201,
\* and a failed step ends the call
UploadStepsOrdered ==
  /\ "patch" \in Range(UploadSteps) =>
        client.ret.status = 202 /\ client.ret.location
  /\ "complete" \in Range(UploadSteps) => client.patched = 202
  /\ (client.pc = "done" /\ client.err = "") => client.completed = 201
  /\ client.err # "" => client.pc = "done"
  /\ (client.ret.status \notin {0, 202} \/ client.patched \notin {0, 202}
        \/ client.completed # 0) => client.pc = "done"

\* C31 as stated: PutBlob issues POST, PATCH and PUT in that order, each
\* at most once and each only after the step before it was answered 202;
\* it returns nil only if the PUT is answered 201, and after a failed step
\* no later step is issued.
C31_EachStepOnce ==
  client.op = "PutBlob" =>
    /\ IsPrefix(UploadSteps, <<"original", "patch", "complete">>)
    /\ UploadStepsOrdered

\* C31 amended: the POST goes out at most twice, the second time only after
\* the first was answered 401 (doRequest authenticates and sends it again);
\* the PATCH and the PUT go out at most once each, in that order, each only
\* after the step before it was answered 202; nil is returned only if the
\* PUT is answered 201, and after a failed step no later step is issued.
C31_StepsInOrder ==
  client.op = "PutBlob" =>
    /\ \/ IsPrefix(UploadSteps, <<"original", "patch", "complete">>)
       \/ /\ IsPrefix(UploadSteps, <<"original", "original", "patch", "complete">>)
          /\ client.first.status = 401
    /\ UploadStepsOrdered

\* C31 witness: the POST was sent again after a 401, and the PATCH and the
\* PUT followed and were answered 202 and 201.
C31_Witness ==
  /\ client.op = "PutBlob" /\ client.pc = "done" /\ client.err = ""
  /\ UploadSteps = <<"original", "original", "patch", "complete">>
  /\ client.first.status = 401 /\ client.completed = 201

\* C40: when the target answers the upload-initiation POST with 201,
\* PutBlob and the CopyBlob call that invoked it report success.
C40_MountedReportsSuccess ==
  (client.op = "PutBlob" /\ client.pc = "done" /\ client.ret.status = 201) =>
    (client.err = "" /\ CopyBlobReturn(client) = "")

(***************************************************************************)
(* filter.Filter (pkg/filter/filter.go): one call of FilterTags.  Tag      *)
(* names and patterns are sequences of characters; the patterns are        *)
(* literals, which regexp.MatchString finds anywhere in the tag.           *)
(***************************************************************************)
\* longest tag list handed to FilterTags
MaxTags == 3
\* largest value of Filter.Latest
MaxLatest == 2

\* TagInfo values the list is built from
TagInfo(name, updated) == [Name |-> name, Updated |-> updated]
TagInfos ==
  {TagInfo(<<"a">>, 1), TagInfo(<<"a", "b">>, 2), TagInfo(<<"b">>, 2),
   TagInfo(<<"a", "a">>, 2)}

RECURSIVE TagLists(_)
TagLists(n) ==
  IF n = 0 THEN {<<>>}
  ELSE TagLists(n - 1) \cup {Append(l, t) : l \in {m \in TagLists(n - 1) : Len(m) = n - 1}, t \in TagInfos}

\* the filters NewFilter builds: compiled include and exclude patterns, Latest
Filters ==
  {[Include |-> inc, Exclude |-> exc, Latest |-> n] :
     inc \in {<<>>, <<<<"a">>>>, <<<<"a">>, <<"b">>>>},
     exc \in {<<>>, <<<<"b">>>>},
     n \in (0 - 1)..MaxLatest}

\* regexp.MatchString for a literal pattern: the pattern occurs in the tag
MatchString(re, tag) ==
  \E i \in 1..(Len(tag) + 1) :
    i + Len(re) - 1 <= Len(tag) /\ SubSeq(tag, i, i + Len(re) - 1) = re

\* Match as it would be if the include patterns were tried first
MatchIncludeFirst(f, tag) ==
  IF \E k \in 1..Len(f.Include) : MatchString(f.Include[k], tag) THEN TRUE
  ELSE IF \E k \in 1..Len(f.Exclude) : MatchString(f.Exclude[k], tag) THEN FALSE
  ELSE Len(f.Include) = 0

\* Filter.Match
Match(f, tag) ==
  IF \E k \in 1..Len(f.Exclude) : MatchString(f.Exclude[k], tag) THEN FALSE
  ELSE IF Len(f.Include) = 0 THEN TRUE
  ELSE \E k \in 1..Len(f.Include) : MatchString(f.Include[k], tag)

\* the orders of 1..n
Orders(n) == {p \in [1..n -> 1..n] : \A i, j \in 1..n : i # j => p[i] # p[j]}

\* line 79, the less function: matched[i].Updated.After(matched[j].Updated)
Less(a, b) == a.Updated > b.Updated

\* sort.Slice (lines 78-80): the slice reordered so that no element is less
\* than one before it; the order of elements neither of which is less than
\* the other is not fixed
SortSlice(s) ==
  {[i \in 1..Len(s) |-> s[p[i]]] : p \in {q \in Orders(Len(s)) :
      \A i, j \in 1..Len(s) : i < j => ~Less(s[q[j]], s[q[i]])}}

\* lines 83-85
ApplyLatest(latest, matched) ==
  IF latest > 0 /\ Len(matched) > latest THEN SubSeq(matched, 1, latest)
  ELSE matched

\* lines 88-91
Names(matched) == [i \in 1..Len(matched) |-> matched[i].Name]

NewFilterCall(f, tags) ==
  [pc |-> "match", f |-> f, tags |-> tags, i |-> 1, matched |-> <<>>,
   result |-> <<>>]

\* lines 71-75: one iteration of the loop over the tags
FilterMatch ==
  /\ filter.pc = "match"
  /\ filter.i <= Len(filter.tags)
  /\ filter' = [filter EXCEPT
       !.matched = IF Match(filter.f, filter.tags[filter.i].Name)
                   THEN Append(@, filter.tags[filter.i]) ELSE @,
       !.i = @ + 1]
  /\ UNCHANGED <<schedVars, compVars, planner, access, hub, engine>>

\* lines 78-80
FilterSort ==
  /\ filter.pc = "match"
  /\ filter.i > Len(filter.tags)
  /\ \E sorted \in SortSlice(filter.matched) :
       filter' = [filter EXCEPT !.matched = sorted, !.pc = "limit"]
  /\ UNCHANGED <<schedVars, compVars, planner, access, hub, engine>>

\* lines 83-93
FilterReturn ==
  /\ filter.pc = "limit"
  /\ filter' = [filter EXCEPT
       !.result = Names(ApplyLatest(filter.f.Latest, filter.matched)),
       !.pc = "done"]
  /\ UNCHANGED <<schedVars, compVars, planner, access, hub, engine>>

FilterInit ==
  /\ sourceTags = <<"v1">>
  /\ SchedInit
  /\ CompIdle
  /\ filter \in {NewFilterCall(f, tags) : f \in Filters, tags \in TagLists(MaxTags)}
  /\ planner = NoPlanner /\ access = NoAccess /\ hub = NoHub /\ engine = NoEngine

FilterNext == FilterMatch \/ FilterSort \/ FilterReturn

SpecFilter == FilterInit /\ [][FilterNext]_vars

\* the positions of the tags that match no exclude pattern and, when there
\* is an include pattern, match one of them
Wanted(f, tags) ==
  {i \in 1..Len(tags) :
     /\ \A k \in 1..Len(f.Exclude) : ~MatchString(f.Exclude[k], tags[i].Name)
     /\ Len(f.Include) > 0 => \E k \in 1..Len(f.Include) : MatchString(f.Include[k], tags[i].Name)}

\* the number of tags returned for n wanted ones
Kept(latest, n) == IF latest > 0 /\ n > latest THEN latest ELSE n

\* C21: FilterTags returns exactly the tags that match no exclude pattern
\* and, when there is an include pattern, at least one include pattern,
\* ordered by Updated descending and cut to the first N when latest = N > 0.
C21_FilterTagsResult ==
  filter.pc = "done" =>
    LET w == Wanted(filter.f, filter.tags)
        n == Cardinality(w)
    IN \E o \in [1..n -> w] :
         /\ \A i, j \in 1..n : i # j => o[i] # o[j]
         /\ \A i, j \in 1..n : i < j => filter.tags[o[i]].Updated >= filter.tags[o[j]].Updated
         /\ filter.result =
              [i \in 1..Kept(filter.f.Latest, n) |-> filter.tags[o[i]].Name]

\* C21 witness: a call returned after an exclude pattern dropped a tag that
\* an include pattern matched, the kept tags were reordered, and the limit
\* cut the list.
C21_Witness ==
  /\ filter.pc = "done"
  /\ Len(filter.f.Include) > 0 /\ Len(filter.f.Exclude) > 0
  /\ filter.f.Latest = 1
  /\ Len(filter.tags) = 3
  /\ filter.tags[1] = TagInfo(<<"a">>, 1)
  /\ filter.tags[2] = TagInfo(<<"a", "b">>, 2)
  /\ filter.tags[3] = TagInfo(<<"a", "a">>, 2)
  /\ filter.result = <<<<"a", "a">>>>

(***************************************************************************)
(* Scheduler.running as the goroutines of the program use it: the caller   *)
(* of ExecuteTask (an API handler or the cron), the caller of CancelTask,  *)
(* the caller of Stop, and the background run of every execution started.  *)
(* A map operation takes time: a goroutine is at the map from the step     *)
(* that begins its operation to the step that ends it.  The Scheduler has  *)
(* no lock, so nothing keeps a goroutine from beginning its operation.     *)
(***************************************************************************)
\* number of background runs started in one behaviour
MaxStarts == 2

\* the task all the calls are about
TheTask == 1

NewAccess ==
  [pc |-> "on", running |-> {}, execute |-> "idle", cancel |-> "idle",
   stop |-> "idle", started |-> 0, run |-> [r \in {} |-> "none"]]

\* the goroutines that are inside an operation on the map
AtMap(a) ==
  (IF a.execute \in {"reading", "writing"} THEN {<<"ExecuteTask", 0>>} ELSE {})
  \cup (IF a.cancel \in {"reading", "deleting"} THEN {<<"CancelTask", 0>>} ELSE {})
  \cup (IF a.stop = "ranging" THEN {<<"Stop", 0>>} ELSE {})
  \cup {<<"run", r>> : r \in {q \in DOMAIN a.run : a.run[q] = "deleting"}}

\* line 101 begins: s.running[taskID] is looked up
AccessExecuteBegin ==
  /\ access.pc = "on" /\ access.execute = "idle"
  /\ access' = [access EXCEPT !.execute = "reading"]
  /\ UNCHANGED <<schedVars, compVars, filter, planner, hub, engine>>

\* lines 101-125: the lookup ends; with an entry ExecuteTask returns its
\* error, without one it loads the task and creates the execution
AccessExecuteRead ==
  /\ access.pc = "on" /\ access.execute = "reading"
  /\ access' = [access EXCEPT
       !.execute = IF TheTask \in access.running THEN "idle" ELSE "created"]
  /\ UNCHANGED <<schedVars, compVars, filter, planner, hub, engine>>

\* line 126 begins: s.running[taskID] = cancel
AccessExecuteStoreBegin ==
  /\ access.pc = "on" /\ access.execute = "created"
  /\ access.started < MaxStarts
  /\ access' = [access EXCEPT !.execute = "writing"]
  /\ UNCHANGED <<schedVars, compVars, filter, planner, hub, engine>>

\* lines 126-175: the store ends, the background run is started, ExecuteTask
\* returns
AccessExecuteStore ==
  /\ access.pc = "on" /\ access.execute = "writing"
  /\ access' = [access EXCEPT
       !.running = @ \cup {TheTask},
       !.started = @ + 1,
       !.run = [r \in 1..(access.started + 1) |->
                  IF r <= access.started THEN access.run[r] ELSE "running"],
       !.execute = "idle"]
  /\ UNCHANGED <<schedVars, compVars, filter, planner, hub, engine>>

\* lines 130-131 begin: the run is over, the deferred delete starts
AccessRunDeleteBegin(r) ==
  /\ access.pc = "on" /\ access.run[r] = "running"
  /\ access' = [access EXCEPT !.run[r] = "deleting"]
  /\ UNCHANGED <<schedVars, compVars, filter, planner, hub, engine>>

\* line 131 ends
AccessRunDelete(r) ==
  /\ access.pc = "on" /\ access.run[r] = "deleting"
  /\ access' = [access EXCEPT !.run[r] = "done", !.running = @ \ {TheTask}]
  /\ UNCHANGED <<schedVars, compVars, filter, planner, hub, engine>>

\* line 546 begins
AccessCancelBegin ==
  /\ access.pc = "on" /\ access.cancel = "idle"
  /\ access' = [access EXCEPT !.cancel = "reading"]
  /\ UNCHANGED <<schedVars, compVars, filter, planner, hub, engine>>

\* lines 546-551: the lookup ends; without an entry CancelTask returns its
\* error, with one it calls cancel
AccessCancelRead ==
  /\ access.pc = "on" /\ access.cancel = "reading"
  /\ access' = [access EXCEPT
       !.cancel = IF TheTask \in access.running THEN "cancelled" ELSE "idle"]
  /\ UNCHANGED <<schedVars, compVars, filter, planner, hub, engine>>

\* line 552 begins
AccessCancelDeleteBegin ==
  /\ access.pc = "on" /\ access.cancel = "cancelled"
  /\ access' = [access EXCEPT !.cancel = "deleting"]
  /\ UNCHANGED <<schedVars, compVars, filter, planner, hub, engine>>

\* lines 552-555
AccessCancelDelete ==
  /\ access.pc = "on" /\ access.cancel = "deleting"
  /\ access' = [access EXCEPT !.cancel = "idle", !.running = @ \ {TheTask}]
  /\ UNCHANGED <<schedVars, compVars, filter, planner, hub, engine>>

\* line 69 begins: Stop ranges over the map
AccessStopBegin ==
  /\ access.pc = "on" /\ access.stop = "idle"
  /\ access' = [access EXCEPT !.stop = "ranging"]
  /\ UNCHANGED <<schedVars, compVars, filter, planner, hub, engine>>

\* lines 69-74: the range ends (every cancel function found was called)
AccessStopEnd ==
  /\ access.pc = "on" /\ access.stop = "ranging"
  /\ access' = [access EXCEPT !.stop = "stopped"]
  /\ UNCHANGED <<schedVars, compVars, filter, planner, hub, engine>>

\* the goroutines that are inside a write of the map
Writers(a) ==
  (IF a.execute = "writing" THEN {<<"ExecuteTask", 0>>} ELSE {})
  \cup (IF a.cancel = "deleting" THEN {<<"CancelTask", 0>>} ELSE {})
  \cup {<<"run", r>> : r \in {q \in DOMAIN a.run : a.run[q] = "deleting"}}

\* an unsynchronised write of a Go map that overlaps another access is a
\* data race: the accesses may go through, or the runtime may detect the
\* overlap and end the process with a fatal error that cannot be recovered
AccessCrash ==
  /\ access.pc = "on"
  /\ Writers(access) # {}
  /\ Cardinality(AtMap(access)) >= 2
  /\ access' = [access EXCEPT !.pc = "crashed"]
  /\ UNCHANGED <<schedVars, compVars, filter, planner, hub, engine>>

AccessInit ==
  /\ sourceTags = <<"v1">>
  /\ SchedInit
  /\ CompIdle
  /\ access = NewAccess
  /\ filter = NoFilter /\ planner = NoPlanner /\ hub = NoHub /\ engine = NoEngine

AccessNext ==
  \/ AccessExecuteBegin
  \/ AccessExecuteRead
  \/ AccessExecuteStoreBegin
  \/ AccessExecuteStore
  \/ \E r \in 1..MaxStarts : r \in DOMAIN access.run /\ AccessRunDeleteBegin(r)
  \/ \E r \in 1..MaxStarts : r \in DOMAIN access.run /\ AccessRunDelete(r)
  \/ AccessCancelBegin
  \/ AccessCancelRead
  \/ AccessCancelDeleteBegin
  \/ AccessCancelDelete
  \/ AccessStopBegin
  \/ AccessStopEnd
  \/ AccessCrash

SpecAccess == AccessInit /\ [][AccessNext]_vars

\* the steps of the background run r: runTask returns and the terminal
\* status is written (the deferred delete begins), the delete ends
AccessRunStep(r) ==
  /\ r \in DOMAIN access.run
  /\ (AccessRunDeleteBegin(r) \/ AccessRunDelete(r))

\* every call a run makes returns and the Go scheduler lets every goroutine
\* run: a run that can take a step eventually takes it
SpecAccessLive ==
  SpecAccess /\ \A r \in 1..MaxStarts : WF_vars(AccessRunStep(r))

\* C22: every read or write of the running map happens under mutual
\* exclusion: no two of ExecuteTask, CancelTask, Stop and a run's cleanup
\* are at the map at the same time.
C22_MapAccessExclusive ==
  access.pc = "on" => Cardinality(AtMap(access)) <= 1

\* C39: every background run that ExecuteTask started eventually ends, its
\* execution terminal, and has then removed the task id from the running
\* map, so that an ExecuteTask of the task that looks at the map after that
\* is accepted.
C39_EveryRunEnds ==
  \A r \in 1..MaxStarts :
    [](r \in DOMAIN access.run =>
         <>(/\ r \in DOMAIN access.run
            /\ access.run[r] = "done"))

(***************************************************************************)
(* websocket.Hub (internal/websocket/hub.go): the Run loop, the            *)
(* subscribers' ReadPump and WritePump, and the producers that call        *)
(* BroadcastProgress or BroadcastLog.                                      *)
(***************************************************************************)
\* capacity of a Client's send channel (256 in NewClient)
SendCap == 1
\* number of messages broadcast in one behaviour (the broadcast channel,
\* of capacity 256, never fills)
MaxMessages == 2

Subscribers == {1, 2}

\* NewHub, with the connections that will subscribe: NewClient gives each an
\* empty send channel
NewHub ==
  [pc |-> "select", clients |-> {},
   conn |-> [c \in Subscribers |-> "new"],
   send |-> [c \in Subscribers |-> <<>>],
   closes |-> [c \in Subscribers |-> 0],
   broadcast |-> <<>>, sent |-> 0,
   message |-> 0, todo |-> {}, start |-> {}, got |-> {}, dropped |-> {}]

\* BroadcastProgress / BroadcastLog: h.broadcast <- jsonData
HubBroadcast ==
  /\ hub.pc \in {"select", "range"}
  /\ hub.sent < MaxMessages
  /\ hub' = [hub EXCEPT !.broadcast = Append(@, hub.sent + 1), !.sent = @ + 1]
  /\ UNCHANGED <<schedVars, compVars, filter, planner, access, engine>>

\* Hub.Register meets case client := <-h.register (lines 33-36)
HubRegister(c) ==
  /\ hub.pc = "select"
  /\ hub.conn[c] = "new"
  /\ hub' = [hub EXCEPT !.clients = @ \cup {c}, !.conn[c] = "registered"]
  /\ UNCHANGED <<schedVars, compVars, filter, planner, access, engine>>

\* ReadPump: ReadMessage fails, the deferred function starts to send the
\* client on h.unregister (lines 116-127)
ClientReadEnd(c) ==
  /\ hub.pc \in {"select", "range"}
  /\ hub.conn[c] = "registered"
  /\ hub' = [hub EXCEPT !.conn[c] = "leaving"]
  /\ UNCHANGED <<schedVars, compVars, filter, planner, access, engine>>

\* case client := <-h.unregister (lines 38-44)
HubUnregister(c) ==
  /\ hub.pc = "select"
  /\ hub.conn[c] = "leaving"
  /\ hub' = [hub EXCEPT
       !.conn[c] = "gone",
       !.clients = @ \ {c},
       !.closes[c] = IF c \in hub.clients THEN @ + 1 ELSE @]
  /\ UNCHANGED <<schedVars, compVars, filter, planner, access, engine>>

\* case message := <-h.broadcast (lines 46-48): the range over the clients
\* begins
HubReceive ==
  /\ hub.pc = "select"
  /\ hub.broadcast # <<>>
  /\ hub' = [hub EXCEPT
       !.pc = "range", !.message = Head(hub.broadcast),
       !.broadcast = Tail(@),
       !.todo = hub.clients, !.start = hub.clients,
       !.got = {}, !.dropped = {}]
  /\ UNCHANGED <<schedVars, compVars, filter, planner, access, engine>>

\* the hub after the default branch, as it would be if the client stayed in
\* the client set
DropKeepsClient(h, c) ==
  [h EXCEPT !.closes[c] = @ + 1, !.dropped = @ \cup {c}]

\* lines 51-53, the default branch: close(client.send), delete(h.clients,
\* client)
Drop(h, c) ==
  [h EXCEPT !.closes[c] = @ + 1, !.clients = @ \ {c}, !.dropped = @ \cup {c}]

\* line 50: client.send <- message, when the channel has room
Deliver(h, c) ==
  [h EXCEPT !.send[c] = Append(@, h.message), !.got = @ \cup {c}]

\* lines 48-55: one iteration of the range, for client c
HubDeliver(c) ==
  /\ hub.pc = "range"
  /\ c \in hub.todo
  /\ LET h == [hub EXCEPT !.todo = @ \ {c}]
     IN hub' = IF Len(hub.send[c]) < SendCap THEN Deliver(h, c) ELSE Drop(h, c)
  /\ UNCHANGED <<schedVars, compVars, filter, planner, access, engine>>

\* lines 55-57: the range is over, back to the select
HubRangeEnd ==
  /\ hub.pc = "range"
  /\ hub.todo = {}
  /\ hub' = [hub EXCEPT !.pc = "select"]
  /\ UNCHANGED <<schedVars, compVars, filter, planner, access, engine>>

\* WritePump: message, ok := <-c.send with a message in the channel
ClientWrite(c) ==
  /\ hub.pc \in {"select", "range"}
  /\ hub.send[c] # <<>>
  /\ hub' = [hub EXCEPT !.send[c] = Tail(@)]
  /\ UNCHANGED <<schedVars, compVars, filter, planner, access, engine>>

HubInit ==
  /\ sourceTags = <<"v1">>
  /\ SchedInit
  /\ CompIdle
  /\ hub = NewHub
  /\ filter = NoFilter /\ planner = NoPlanner /\ access = NoAccess /\ engine = NoEngine

HubNext ==
  \/ HubBroadcast
  \/ \E c \in Subscribers : HubRegister(c)
  \/ \E c \in Subscribers : ClientReadEnd(c)
  \/ \E c \in Subscribers : HubUnregister(c)
  \/ HubReceive
  \/ \E c \in Subscribers : HubDeliver(c)
  \/ HubRangeEnd
  \/ \E c \in Subscribers : ClientWrite(c)

SpecHub == HubInit /\ [][HubNext]_vars

\* C23: when a broadcast message meets a subscriber whose send buffer is
\* full, the Run loop goes on without waiting: that subscriber leaves the
\* client set and its send channel is closed, once and never again, and
\* every other registered subscriber with room in its buffer gets the
\* message; when the range ends every subscriber it started with has got the
\* message or was dropped.
C23_FullBufferDropped ==
  /\ [](hub.pc # "none" =>
          /\ \A c \in Subscribers : hub.closes[c] <= 1
          /\ \A c \in hub.clients : hub.closes[c] = 0
          /\ hub.pc = "select" => hub.got \cup hub.dropped = hub.start)
  /\ [][\A c \in Subscribers :
          HubDeliver(c) =>
            IF Len(hub.send[c]) >= SendCap
            THEN /\ c \notin hub'.clients
                 /\ hub'.closes[c] = hub.closes[c] + 1
                 /\ hub'.send = hub.send
            ELSE /\ hub'.send[c] = Append(hub.send[c], hub.message)
                 /\ hub'.clients = hub.clients
                 /\ hub'.closes = hub.closes]_vars

\* C23 witness: a broadcast has ended in which one subscriber, its buffer
\* full, was dropped and closed while its connection was still open, and
\* the other subscriber got the message.
C23_Witness ==
  /\ hub.pc = "select"
  /\ \E c, d \in Subscribers :
       /\ c # d
       /\ hub.dropped = {c} /\ hub.closes[c] = 1 /\ hub.conn[c] = "registered"
       /\ hub.got = {d} /\ d \in hub.clients
       /\ hub.send[d] # <<>> /\ hub.send[d][Len(hub.send[d])] = hub.message

(***************************************************************************)
(* Scheduler.runTask from line 365 on, for a task that syncs a whole       *)
(* project: the planning loop over the repositories and their tags, then   *)
(* the loop over the plan.  A request fails when the context is cancelled  *)
(* and may fail while the environment has a fault to spend.                *)
(***************************************************************************)
\* number of ListTags / GetManifest requests the environment lets fail in
\* one behaviour
MaxPlanFaults == 2

\* what ListRepositories returned (line 328), and the tags ListTags returns
\* for each repository
PlanRepositories == <<"r1", "r2">>
PlanTags(repo) == IF repo = "r1" THEN <<"v1", "v2">> ELSE <<"v1">>

\* SyncTask.TagInclude, TagExclude, TagLatest of the task (line 381)
TaskFilter == [Include |-> <<>>, Exclude |-> <<>>, Latest |-> 0]

\* lines 392-398: every tag gets time.Now() as its Updated; the clock
\* advances from one tag to the next
MakeTagInfos(tags) == [i \in 1..Len(tags) |-> TagInfo(tags[i], i)]

\* Filter.FilterTags, by its possible results (line 400)
FilterTags(f, tags) ==
  {Names(ApplyLatest(f.Latest, sorted)) :
     sorted \in SortSlice(SelectSeq(tags, LAMBDA t : Match(f, t.Name)))}

NewPlanner ==
  [pc |-> "list", ctxDone |-> FALSE, faults |-> 0,
   ri |-> 1, filteredTags |-> <<>>, ti |-> 1,
   allRepoTags |-> <<>>, totalBlobsCount |-> 0, TotalBlobs |-> 0,
   si |-> 1,
   listed |-> {}, listFailed |-> {}, fetched |-> {}, manifestFailed |-> {},
   copied |-> {}, pushed |-> {}]

PlanRequest(p) == Request(p.ctxDone, p.faults < MaxPlanFaults)

PlanFault(p, res) == IF res = "error" /\ ~p.ctxDone THEN p.faults + 1 ELSE p.faults

\* the loop as it would be if a failed ListTags ended it
AfterListTagsErrorBreaks(p) ==
  [p EXCEPT !.ri = Len(PlanRepositories) + 1]

\* lines 370-378: ListTags failed, continue with the next repository
AfterListTagsError(p) ==
  [p EXCEPT !.ri = @ + 1]

\* lines 365-400: the next repository: list its tags, filter them
PlanListTags ==
  /\ planner.pc = "list"
  /\ planner.ri <= Len(PlanRepositories)
  /\ LET repo == PlanRepositories[planner.ri]
     IN \E res \in PlanRequest(planner) :
        \E tags \in (IF res = "ok" THEN FilterTags(TaskFilter, MakeTagInfos(PlanTags(repo)))
                     ELSE {<<>>}) :
          LET p == [planner EXCEPT !.faults = PlanFault(planner, res),
                                   !.listed = @ \cup {repo}]
          IN planner' =
               IF res = "error"
               THEN AfterListTagsError([p EXCEPT !.listFailed = @ \cup {repo}])
               ELSE [p EXCEPT !.filteredTags = tags, !.ti = 1, !.pc = "manifest"]
  /\ UNCHANGED <<schedVars, compVars, filter, access, hub, engine>>

\* lines 403-425: the next tag: fetch its manifest, count its blobs, add it
\* to allRepoTags; on an error continue with the next tag
PlanGetManifest ==
  /\ planner.pc = "manifest"
  /\ planner.ti <= Len(planner.filteredTags)
  /\ LET rt == <<PlanRepositories[planner.ri], planner.filteredTags[planner.ti]>>
         blobs == GetAllBlobs(SourceManifest(rt[2]))
     IN \E res \in PlanRequest(planner) :
          LET p == [planner EXCEPT !.faults = PlanFault(planner, res),
                                   !.fetched = @ \cup {rt},
                                   !.ti = @ + 1]
          IN planner' =
               IF res = "error"
               THEN [p EXCEPT !.manifestFailed = @ \cup {rt}]
               ELSE [p EXCEPT !.totalBlobsCount = @ + Len(blobs),
                              !.allRepoTags = Append(@, rt)]
  /\ UNCHANGED <<schedVars, compVars, filter, access, hub, engine>>

\* line 426: the tags of the repository are done
PlanNextRepository ==
  /\ planner.pc = "manifest"
  /\ planner.ti > Len(planner.filteredTags)
  /\ planner' = [planner EXCEPT !.pc = "list", !.ri = @ + 1]
  /\ UNCHANGED <<schedVars, compVars, filter, access, hub, engine>>

\* lines 428-437: the repositories are done, the total is stored
PlanStoreTotal ==
  /\ planner.pc = "list"
  /\ planner.ri > Len(PlanRepositories)
  /\ planner' = [planner EXCEPT !.TotalBlobs = planner.totalBlobsCount,
                                !.pc = "sync", !.si = 1]
  /\ UNCHANGED <<schedVars, compVars, filter, access, hub, engine>>

\* lines 441-532: one entry of allRepoTags: BlobExists (and CopyBlob) for
\* each of its blobs, then PutManifest
PlanSyncTag ==
  /\ planner.pc = "sync"
  /\ planner.si <= Len(planner.allRepoTags)
  /\ planner' = [planner EXCEPT
       !.copied = @ \cup {planner.allRepoTags[planner.si]},
       !.pushed = @ \cup {planner.allRepoTags[planner.si]},
       !.si = @ + 1]
  /\ UNCHANGED <<schedVars, compVars, filter, access, hub, engine>>

\* lines 534-541
PlanReturn ==
  /\ planner.pc = "sync"
  /\ planner.si > Len(planner.allRepoTags)
  /\ planner' = [planner EXCEPT !.pc = "done"]
  /\ UNCHANGED <<schedVars, compVars, filter, access, hub, engine>>

\* the context of the run is cancelled (CancelTask, Stop)
PlanCancel ==
  /\ planner.pc \in {"list", "manifest", "sync"}
  /\ ~planner.ctxDone
  /\ planner' = [planner EXCEPT !.ctxDone = TRUE]
  /\ UNCHANGED <<schedVars, compVars, filter, access, hub, engine>>

PlannerInit ==
  /\ sourceTags = <<"v1">>
  /\ SchedInit
  /\ CompIdle
  /\ planner = NewPlanner
  /\ filter = NoFilter /\ access = NoAccess /\ hub = NoHub /\ engine = NoEngine

PlannerNext ==
  \/ PlanListTags
  \/ PlanGetManifest
  \/ PlanNextRepository
  \/ PlanStoreTotal
  \/ PlanSyncTag
  \/ PlanReturn
  \/ PlanCancel

SpecPlanner == PlannerInit /\ [][PlannerNext]_vars

\* the (repository, tag) pairs of the rule
RuleTags ==
  UNION {{<<repo, tag>> : tag \in Range(PlanTags(repo))} : repo \in Range(PlanRepositories)}

\* the pairs whose ListTags and GetManifest both succeeded
Healthy(p) ==
  {rt \in RuleTags : rt[1] \notin p.listFailed /\ rt \notin p.manifestFailed}

RECURSIVE SumBlobs(_)
SumBlobs(rts) ==
  IF rts = {} THEN 0
  ELSE LET rt == CHOOSE x \in rts : TRUE
       IN Len(GetAllBlobs(SourceManifest(rt[2]))) + SumBlobs(rts \ {rt})

\* C27: a repository whose ListTags failed and a tag whose GetManifest
\* failed contribute nothing to the plan (no blob in the total, no blob
\* copied, no manifest pushed), and every other repository and tag of the
\* rule is still processed: listed, fetched, planned, counted, and at the
\* end copied and pushed.
C27_FailuresSkippedOthersProcessed ==
  planner.pc \in {"sync", "done"} =>
    /\ planner.listed = Range(PlanRepositories)
    /\ planner.fetched = {rt \in RuleTags : rt[1] \notin planner.listFailed}
    /\ Range(planner.allRepoTags) = Healthy(planner)
    /\ Len(planner.allRepoTags) = Cardinality(Healthy(planner))
    /\ planner.TotalBlobs = SumBlobs(Healthy(planner))
    /\ planner.copied \subseteq Healthy(planner)
    /\ planner.pushed \subseteq Healthy(planner)
    /\ planner.pc = "done" =>
         planner.copied = Healthy(planner) /\ planner.pushed = Healthy(planner)

\* C27 witness: a run ended in which ListTags failed for the first
\* repository and the tag of the second was copied and pushed.
C27_Witness ==
  /\ planner.pc = "done"
  /\ planner.listFailed = {"r1"}
  /\ planner.pushed = {<<"r2", "v1">>}
  /\ planner.TotalBlobs = 2

(***************************************************************************)
(* Engine.SyncRule (the command-line path), with SyncTag, SyncManifestList *)
(* and SyncSingleManifest, by the requests it sends to the two registries. *)
(* A blob task is one step here: the worker pool that runs it and the      *)
(* retry around CopyBlob are specified above.                              *)
(***************************************************************************)
\* the tag lists the source repository may hold: the tag a is the image v2
\* of the catalog, the tag b its manifest list
EngineRepoTags == {<<>>, <<<<"a">>>>, <<<<"b">>>>, <<<<"a">>, <<"b">>>>}

EngineManifestRef(tag) == IF tag = <<"a">> THEN "v2" ELSE "multi"

\* rule.Tags of the rule: everything, or everything but b
EngineRules ==
  {[Include |-> <<>>, Exclude |-> <<>>, Latest |-> 0],
   [Include |-> <<>>, Exclude |-> <<<<"b">>>>, Latest |-> 0]}

EngineRequest(to, kind) == [to |-> to, kind |-> kind]

\* NewEngine and the start of SyncRule, the target repository empty
NewEngine(dryRun, repoTags, rule) ==
  [pc |-> "pingSource", dryRun |-> dryRun, repoTags |-> repoTags, rule |-> rule,
   requests |-> {}, listed |-> FALSE, filteredTags |-> <<>>, ti |-> 1,
   entries |-> <<>>, ei |-> 1, inList |-> FALSE, ref |-> "",
   blobs |-> <<>>, bi |-> 1, failed |-> FALSE, target |-> {}, result |-> ""]

Sent(g, to, kind) == [g EXCEPT !.requests = @ \cup {EngineRequest(to, kind)}]

EngineReturn(g, res) == [g EXCEPT !.pc = "done", !.result = res]

\* lines 376-378
EnginePingSource ==
  /\ engine.pc = "pingSource"
  /\ LET g == Sent(engine, "source", "Ping")
     IN \/ engine' = [g EXCEPT !.pc = "pingTarget"]
        \/ engine' = EngineReturn(g, "error")
  /\ UNCHANGED <<schedVars, compVars, filter, planner, access, hub>>

\* lines 380-382
EnginePingTarget ==
  /\ engine.pc = "pingTarget"
  /\ LET g == Sent(engine, "target", "Ping")
     IN \/ engine' = [g EXCEPT !.pc = "listTags"]
        \/ engine' = EngineReturn(g, "error")
  /\ UNCHANGED <<schedVars, compVars, filter, planner, access, hub>>

\* the test as it would be if the flag were not looked at
DryRunIgnored(g) == FALSE

\* line 416: if e.dryRun
DryRunReturns(g) == g.dryRun

\* lines 384-422: list the tags, filter them, return when nothing is left
\* or in dry-run mode
EngineListTags ==
  /\ engine.pc = "listTags"
  /\ LET g == Sent(engine, "source", "ListTags")
     IN \/ engine' = EngineReturn(g, "error")
        \/ \E filtered \in FilterTags(g.rule, MakeTagInfos(g.repoTags)) :
             LET h == [g EXCEPT !.listed = TRUE, !.filteredTags = filtered]
             IN engine' = IF Len(filtered) = 0 THEN EngineReturn(h, "nil")
                          ELSE IF DryRunReturns(h) THEN EngineReturn(h, "nil")
                          ELSE [h EXCEPT !.pc = "tag"]
  /\ UNCHANGED <<schedVars, compVars, filter, planner, access, hub>>

\* lines 425-433: the loop goes to the next tag or SyncRule returns nil
NextTag(g) ==
  IF g.ti >= Len(g.filteredTags) THEN EngineReturn(g, "nil")
  ELSE [g EXCEPT !.ti = @ + 1, !.pc = "tag"]

\* SyncSingleManifest lines 496-497 for the manifest under ref
StartBlobs(g, ref, inList) ==
  [g EXCEPT !.ref = ref, !.inList = inList, !.failed = FALSE,
            !.blobs = GetAllBlobs(SourceManifest(ref)), !.bi = 1, !.pc = "blobs"]

\* SyncTag, lines 437-458: get the manifest of the tag and branch on its kind
EngineSyncTag ==
  /\ engine.pc = "tag"
  /\ LET g == Sent(engine, "source", "GetManifest")
         ref == EngineManifestRef(g.filteredTags[g.ti])
         m == SourceManifest(ref)
     IN \/ engine' = EngineReturn(g, "error")
        \/ engine' =
             IF IsManifestList(m)
             THEN [g EXCEPT !.entries = FilterManifestsByArch(m.Manifests, TaskArchitectures),
                            !.ei = 1, !.pc = "arch"]
             ELSE StartBlobs(g, ref, FALSE)
  /\ UNCHANGED <<schedVars, compVars, filter, planner, access, hub>>

\* SyncManifestList, lines 469-482: get the manifest of the next entry
EngineArchManifest ==
  /\ engine.pc = "arch"
  /\ engine.ei <= Len(engine.entries)
  /\ LET g == Sent(engine, "source", "GetManifest")
     IN \/ engine' = EngineReturn(g, "error")
        \/ engine' = StartBlobs(g, g.entries[g.ei].Digest, TRUE)
  /\ UNCHANGED <<schedVars, compVars, filter, planner, access, hub>>

\* SyncManifestList, lines 484-490: push the list under the tag
EnginePutList ==
  /\ engine.pc = "arch"
  /\ engine.ei > Len(engine.entries)
  /\ LET g == Sent(engine, "target", "PutManifest")
     IN \/ engine' = EngineReturn(g, "error")
        \/ engine' = NextTag(g)
  /\ UNCHANGED <<schedVars, compVars, filter, planner, access, hub>>

\* BlobSyncTask.Execute, lines 576-609, with CopyBlob (lines 227-257): the
\* existence check, then for an absent blob the mount attempt, the download
\* and the upload; a task that fails does not stop the others
EngineSyncBlob ==
  /\ engine.pc = "blobs"
  /\ engine.bi <= Len(engine.blobs)
  /\ LET digest == engine.blobs[engine.bi].Digest
         head == [Sent(engine, "target", "BlobExists") EXCEPT !.bi = @ + 1]
         mount == Sent(head, "target", "MountBlob")
         get == Sent(mount, "source", "GetBlob")
         put == Sent(get, "target", "PutBlob")
     IN \/ engine' = [head EXCEPT !.failed = TRUE]
        \/ /\ digest \in engine.target
           /\ engine' = head
        \/ /\ digest \notin engine.target
           /\ \/ engine' = [get EXCEPT !.failed = TRUE]
              \/ engine' = [put EXCEPT !.failed = TRUE]
              \/ engine' = [put EXCEPT !.target = @ \cup {digest}]
  /\ UNCHANGED <<schedVars, compVars, filter, planner, access, hub>>

\* SyncSingleManifest, lines 540-560: Wait returns the first error of the
\* tasks, otherwise the manifest is pushed under the reference
EnginePutManifest ==
  /\ engine.pc = "blobs"
  /\ engine.bi > Len(engine.blobs)
  /\ IF engine.failed THEN engine' = EngineReturn(engine, "error")
     ELSE LET g == Sent(engine, "target", "PutManifest")
          IN \/ engine' = EngineReturn(g, "error")
             \/ engine' = IF g.inList THEN [g EXCEPT !.ei = @ + 1, !.pc = "arch"]
                          ELSE NextTag(g)
  /\ UNCHANGED <<schedVars, compVars, filter, planner, access, hub>>

EngineInit ==
  /\ sourceTags = <<"v1">>
  /\ SchedInit
  /\ CompIdle
  /\ engine \in {NewEngine(d, t, r) : d \in BOOLEAN, t \in EngineRepoTags, r \in EngineRules}
  /\ filter = NoFilter /\ planner = NoPlanner /\ access = NoAccess /\ hub = NoHub

EngineNext ==
  \/ EnginePingSource
  \/ EnginePingTarget
  \/ EngineListTags
  \/ EngineSyncTag
  \/ EngineArchManifest
  \/ EnginePutList
  \/ EngineSyncBlob
  \/ EnginePutManifest

SpecEngine == EngineInit /\ [][EngineNext]_vars

\* C34: in dry-run mode SyncRule sends the two pings and ListTags and
\* nothing else: no request that modifies the target, no manifest or blob
\* fetched from the source; once the tags are listed and filtered it
\* returns nil.
C34_DryRunSendsNothing ==
  (engine.pc # "none" /\ engine.dryRun) =>
    /\ \A q \in engine.requests : q.kind \in {"Ping", "ListTags"}
    /\ engine.target = {}
    /\ engine.listed => (engine.pc = "done" /\ engine.result = "nil")
    /\ (engine.pc = "done" /\ engine.result = "nil") => engine.listed

\* C34 witness: a dry run returned nil with two tags it would sync.
C34_Witness ==
  /\ engine.pc = "done" /\ engine.dryRun /\ engine.result = "nil"
  /\ Len(engine.filteredTags) = 2
  /\ EngineRequest("source", "ListTags") \in engine.requests

====
